---- MODULE Spec2Model ----
(***************************************************************************)
(* Model of the two messaging clients of lbrosclient:                      *)
(*   ROSBridgeClient (ros_client.py) and ZMQClient (zmq_client.py).        *)
(* Each client object is one record variable whose fields carry the names  *)
(* of the attributes of the Python object.  One caller thread drives the   *)
(* public methods; the background loop threads the clients start run       *)
(* interleaved with it.  fc is a FrequencyController with the clock it     *)
(* reads, worker a second application thread that calls the registry       *)
(* methods of the ZMQClient.                                               *)
(***************************************************************************)
EXTENDS Integers, Sequences, FiniteSets, TLC

VARIABLES ros, rosCall, zmq, zmqCall, fc, worker

vars == <<ros, rosCall, zmq, zmqCall, fc, worker>>

\* ------------------------------------------------------------------------
\* Bounds of the model
\* ------------------------------------------------------------------------
MaxReconnectAttempts == 2
MaxPublishThreads == 1
MaxSockets == 2
MaxThreads == 1
MaxClock == 5
MaxLoops == 2

\* ------------------------------------------------------------------------
\* Input domains
\* ------------------------------------------------------------------------
Topics == {"t1", "t2"}
TopicKeys == {"k1", "k2"}
Contents == {"c1", "c2"}
Names == {"a", "b"}
NoSock == 0

\* ========================================================================
\* ROSBridgeClient
\* ========================================================================

\* ROSBridgeClient.__init__ : the runtime attributes after construction.
\*   subscribers      : the topic names that are keys of self.subscribers
\*   orphans          : the topic names with a roslibpy.Topic that was
\*                      subscribed, never unsubscribed, and is no longer the
\*                      value stored in self.subscribers
\*   rate_limited     : the topic names whose stored subscription wraps its
\*                      callback in a FrequencyController
\*   freq_controllers : the keys of self._freq_controllers
\* auto_reconnect and connectivity_check_enabled come from the parameter
\* store and are chosen freely in RosInit.
RosObject(autoReconnect, checkEnabled) ==
    [ client                     |-> "None",
      publishers                 |-> {},
      subscribers                |-> {},
      orphans                    |-> {},
      rate_limited               |-> {},
      freq_controllers           |-> {},
      running                    |-> FALSE,
      reconnect_count            |-> 0,
      publish_threads            |-> << >>,
      publish_topics             |-> << >>,
      subscribe_topics           |-> {},
      auto_reconnect             |-> autoReconnect,
      max_reconnect_attempts     |-> MaxReconnectAttempts,
      connectivity_check_enabled |-> checkEnabled ]

\* The caller's position inside ROSBridgeClient.start() and the facts about
\* the call in progress (or the last one that returned).
\*   depth    : number of start() activations on the call stack
\*   retries  : recursive start() calls made by the current top-level call
\*   sleeps   : time.sleep(reconnect_interval) calls of the current call
\*   connects : connect() calls of the current top-level call
\*   probe_failed : a check_network_connectivity() of this call returned False
\*   op, ret  : the last method that returned (start, stop, disconnect,
\*              update_publish_content or other) and what it returned
\*   topic, content : after update_publish_content(_by_name) returned True,
\*              the name of the topic entry it wrote and the new content
\*   between_ticks  : the publish threads that were between two ticks
\*              (sleeping or about to test 'while self.running') when that
\*              update returned
RosIdle ==
    [ pc |-> "idle", depth |-> 0, retries |-> 0, sleeps |-> 0, connects |-> 0,
      probe_failed |-> FALSE, op |-> "none", ret |-> "none",
      topic |-> "", content |-> "", between_ticks |-> {},
      publishers_at_call |-> {}, unadvertised |-> {} ]

\*   publishers_at_call, unadvertised : stop() and disconnect(): the
\*       publishers when the call was entered, and those it unadvertised
\* A method other than start() has returned.
Returned(op, ret) == [RosIdle EXCEPT !.op = op, !.ret = ret]

\* ROSBridgeClient.is_connected
is_connected(r) == r.client = "connected"

\* ROSBridgeClient.check_network_connectivity : reachable is the outcome of
\* the TCP connect_ex probe.
ros_check_network_connectivity(r, reachable) ==
    IF ~r.connectivity_check_enabled THEN TRUE ELSE reachable

\* ROSBridgeClient.connect : a Ros object is created and run; ok tells
\* whether it is connected before connection_timeout.
connect(r, ok) ==
    IF ok THEN [r EXCEPT !.client = "connected", !.reconnect_count = 0]
          ELSE [r EXCEPT !.client = "unconnected"]

\* The retry test of start() after a failed connect().
should_retry(r) ==
    r.auto_reconnect /\ r.reconnect_count < r.max_reconnect_attempts

\* ROSBridgeClient.unsubscribe_topic for every name of list(subscribers):
\* an unsubscribe() that raises is caught and leaves the entry in place.
unsubscribe_all(r, failUnsub) ==
    [r EXCEPT !.subscribers = @ \cap failUnsub,
              !.rate_limited = @ \cap failUnsub,
              !.freq_controllers = @ \ (r.subscribers \ failUnsub)]

\* ROSBridgeClient.disconnect : one try block around all the steps.
\* failUnsub, failUnadv: the topics whose unsubscribe() / unadvertise() raises.
disconnect(r, failUnsub, failUnadv) ==
    LET r0 == unsubscribe_all(r, failUnsub)
        r1 == [r0 EXCEPT !.freq_controllers = {}]
    IN  IF r1.publishers \cap failUnadv # {}
        THEN r1                      \* unadvertise() raised: caught at the end
        \* client.terminate() ends every subscription made on the connection
        ELSE [r1 EXCEPT !.publishers = {}, !.client = "None",
                        !.orphans = {}]

\* disconnect: the publishers on which 'publisher.unadvertise()' was called
\* and returned, when no unadvertise() raises or when the ones that raise
\* come last in the dict.
unadvertised_by_disconnect(r, failUnadv) == r.publishers \ failUnadv

\* stop: the publishers it unadvertised.  'self.publishers.clear()' comes
\* before 'self.disconnect()', whose loop then finds the dict empty.
unadvertised_by_stop(r, failUnadv) ==
    unadvertised_by_disconnect([r EXCEPT !.publishers = {}], failUnadv)

\* ROSBridgeClient.stop
stop(r, failUnsub, failUnadv) ==
    LET r1 == [r EXCEPT !.running = FALSE]
        r2 == unsubscribe_all(r1, failUnsub)
        r3 == [r2 EXCEPT !.publishers = {}]
    IN  disconnect(r3, failUnsub, failUnadv)

\* setup_configured_topics reads topic_config['name'] and
\* topic_config['message_type']; the entries written by add_subscribe_topic
\* and add_publish_topic have no 'message_type' key, so it raises KeyError
\* as soon as one topic is registered.
setup_raises(r) == r.subscribe_topics # {} \/ r.publish_topics # << >>

\* ---- the publish_topics table ------------------------------------------
\* publish_topics is a dict, which keeps insertion order: a sequence of
\* entries [key, name, content] with distinct keys.  'type' is the default
\* 'std_msgs/String' and 'frequency' the default 1.0 of add_publish_topic.

\* Position of topic_key in the dict (0: absent).
KeyIndex(pt, k) ==
    IF \E j \in DOMAIN pt : pt[j].key = k
    THEN CHOOSE j \in DOMAIN pt : pt[j].key = k
    ELSE 0

\* Position of the first entry met by 'for ... in publish_topics.items()'
\* whose topic_config.get('name') is topic_name (0: none).
FirstNamed(pt, t) ==
    IF \E j \in DOMAIN pt : pt[j].name = t
    THEN CHOOSE j \in DOMAIN pt :
            pt[j].name = t /\ \A h \in 1..(j - 1) : pt[h].name # t
    ELSE 0

\* add_publish_topic : self.publish_topics[topic_key] = topic_config
\* (an existing key keeps its position, a new key goes last).
add_publish_topic(pt, k, name, content) ==
    LET e == [key |-> k, name |-> name, content |-> content]
    IN  IF KeyIndex(pt, k) # 0 THEN [pt EXCEPT ![KeyIndex(pt, k)] = e]
                               ELSE Append(pt, e)

\* remove_publish_topic : del self.publish_topics[topic_key]
remove_publish_topic(pt, k) == SelectSeq(pt, LAMBDA e : e.key # k)

\* update_publish_content : publish_topics[topic_key]['content'] = new_content
update_publish_content(pt, k, c) ==
    IF KeyIndex(pt, k) # 0 THEN [pt EXCEPT ![KeyIndex(pt, k)].content = c]
                           ELSE pt

\* update_publish_content_by_name : the first entry with that name is written.
update_publish_content_by_name(pt, t, c) ==
    IF FirstNamed(pt, t) # 0 THEN [pt EXCEPT ![FirstNamed(pt, t)].content = c]
                             ELSE pt

\* The message of a std_msgs/String topic: {'data': content}.
StringMessage(content) == [data |-> content]

\* start_auto_publish(message_data=...): None, or the dict {'data': 'm'}
\* given by the caller (named by its data).
MessageData == {"None", "m"}

\* _get_dynamic_message_data(topic_name, default_message): the content of
\* the first entry with that name, else 'default_message or {'data': 'test'}'.
get_dynamic_message_data(pt, t, default_message) ==
    IF FirstNamed(pt, t) # 0
    THEN StringMessage(pt[FirstNamed(pt, t)].content)
    ELSE IF default_message = "None" THEN StringMessage("test")
                                     ELSE StringMessage(default_message)

\* What a message_generator returns when it does not raise.
GeneratedMessage == StringMessage("generated")

\* No message in hand.
NoMessage == StringMessage("")

\* ---- start() --------------------------------------------------------

\* A top-level call of start().
RosStartCall ==
    /\ rosCall.pc = "idle"
    /\ rosCall' = [RosIdle EXCEPT !.pc = "probe", !.depth = 1]
    /\ UNCHANGED <<ros, zmq, zmqCall, fc, worker>>

\* start(): the reachability probe; a failed probe returns False.
RosStartProbe ==
    /\ rosCall.pc = "probe"
    /\ \E reachable \in BOOLEAN :
         IF ros_check_network_connectivity(ros, reachable)
         THEN rosCall' = [rosCall EXCEPT !.pc = "connect"]
         ELSE rosCall' = [rosCall EXCEPT !.pc = "idle", !.depth = 0,
                                         !.probe_failed = TRUE,
                                         !.op = "start", !.ret = "False"]
    /\ UNCHANGED <<ros, zmq, zmqCall, fc, worker>>

\* start(): connect(), then the retry decision.
RosStartConnect ==
    /\ rosCall.pc = "connect"
    /\ \E ok \in BOOLEAN :
         /\ ros' = connect(ros, ok)
         /\ rosCall' =
              IF ok THEN [rosCall EXCEPT !.pc = "setup", !.connects = @ + 1]
              ELSE IF should_retry(ros)
                   THEN [rosCall EXCEPT !.pc = "sleep", !.connects = @ + 1]
                   ELSE [rosCall EXCEPT !.pc = "idle", !.depth = 0,
                                        !.connects = @ + 1,
                                        !.op = "start", !.ret = "False"]
    /\ UNCHANGED <<zmq, zmqCall, fc, worker>>

\* start(): time.sleep(reconnect_interval); reconnect_count += 1;
\* return self.start()
RosStartRetry ==
    /\ rosCall.pc = "sleep"
    /\ ros' = [ros EXCEPT !.reconnect_count = @ + 1]
    /\ rosCall' = [rosCall EXCEPT !.pc = "probe", !.depth = @ + 1,
                                  !.retries = @ + 1, !.sleeps = @ + 1]
    /\ UNCHANGED <<zmq, zmqCall, fc, worker>>

\* start() after a successful connect(): setup_configured_topics, then
\* running = True and one auto-publish loop per configured publish topic.
RosStartSetup ==
    /\ rosCall.pc = "setup"
    /\ IF setup_raises(ros)
       THEN /\ rosCall' = [rosCall EXCEPT !.pc = "idle", !.depth = 0,
                                          !.op = "start", !.ret = "raised"]
            /\ UNCHANGED ros
       ELSE /\ rosCall' = [rosCall EXCEPT !.pc = "idle", !.depth = 0,
                                          !.op = "start", !.ret = "True"]
            /\ ros' = [ros EXCEPT !.running = TRUE]
    /\ UNCHANGED <<zmq, zmqCall, fc, worker>>

\* ---- other caller operations ------------------------------------------

\* ROSBridgeClient.stop()
RosStop ==
    /\ rosCall.pc = "idle"
    /\ \E failUnsub \in SUBSET ros.subscribers,
          failUnadv \in SUBSET ros.publishers :
         /\ ros' = stop(ros, failUnsub, failUnadv)
         /\ rosCall' = [Returned("stop", "None") EXCEPT
                          !.publishers_at_call = ros.publishers,
                          !.unadvertised = unadvertised_by_stop(ros, failUnadv)]
    /\ UNCHANGED <<zmq, zmqCall, fc, worker>>

\* ROSBridgeClient.disconnect()
RosDisconnect ==
    /\ rosCall.pc = "idle"
    /\ \E failUnsub \in SUBSET ros.subscribers,
          failUnadv \in SUBSET ros.publishers :
         /\ ros' = disconnect(ros, failUnsub, failUnadv)
         /\ rosCall' = [Returned("disconnect", "None") EXCEPT
                          !.publishers_at_call = ros.publishers,
                          !.unadvertised = unadvertised_by_disconnect(ros, failUnadv)]
    /\ UNCHANGED <<zmq, zmqCall, fc, worker>>

\* ROSBridgeClient.create_publisher(topic_name, ...)
RosCreatePublisher(t) ==
    /\ rosCall.pc = "idle"
    /\ IF is_connected(ros)
       THEN /\ ros' = [ros EXCEPT !.publishers = @ \cup {t}]
            /\ rosCall' = Returned("other", "True")
       ELSE /\ UNCHANGED ros
            /\ rosCall' = Returned("other", "False")
    /\ UNCHANGED <<zmq, zmqCall, fc, worker>>

\* ROSBridgeClient.subscribe_topic on a connected client: a new
\* roslibpy.Topic is subscribed and stored under topic_name, whatever was
\* stored there; a FrequencyController is created and stored when
\* target_hz is not None and positive (0 stands for None).
subscribe_topic(r, t, target_hz) ==
    [r EXCEPT !.subscribers = @ \cup {t},
              !.orphans = IF t \in r.subscribers THEN @ \cup {t} ELSE @,
              !.rate_limited = IF target_hz > 0 THEN @ \cup {t} ELSE @ \ {t},
              !.freq_controllers = IF target_hz > 0 THEN @ \cup {t} ELSE @]

\* ROSBridgeClient.subscribe_topic(topic_name, ..., target_hz)
RosSubscribeTopicHz(t, target_hz) ==
    /\ rosCall.pc = "idle"
    /\ IF is_connected(ros)
       THEN /\ ros' = subscribe_topic(ros, t, target_hz)
            /\ rosCall' = Returned("other", "True")
       ELSE /\ UNCHANGED ros
            /\ rosCall' = Returned("other", "False")
    /\ UNCHANGED <<zmq, zmqCall, fc, worker>>

\* ROSBridgeClient.subscribe_topic(topic_name, ...) without target_hz
RosSubscribeTopic(t) == RosSubscribeTopicHz(t, 0)

\* ROSBridgeClient.unsubscribe_topic(topic_name); raised: unsubscribe() of
\* the stored Topic raises, which is caught before anything is deleted.
RosUnsubscribeTopic(t, raised) ==
    /\ rosCall.pc = "idle"
    /\ IF t \in ros.subscribers /\ ~raised
       THEN /\ ros' = unsubscribe_all(ros, ros.subscribers \ {t})
            /\ rosCall' = Returned("other", "True")
       ELSE /\ UNCHANGED ros
            /\ rosCall' = Returned("other", "False")
    /\ UNCHANGED <<zmq, zmqCall, fc, worker>>

\* ROSBridgeClient.add_publish_topic(topic_key, topic_name, content=...)
RosAddPublishTopic(k, t, c) ==
    /\ rosCall.pc = "idle"
    /\ ros' = [ros EXCEPT !.publish_topics = add_publish_topic(@, k, t, c)]
    /\ rosCall' = Returned("other", "None")
    /\ UNCHANGED <<zmq, zmqCall, fc, worker>>

\* ROSBridgeClient.remove_publish_topic(topic_key)
RosRemovePublishTopic(k) ==
    /\ rosCall.pc = "idle"
    /\ KeyIndex(ros.publish_topics, k) # 0
    /\ ros' = [ros EXCEPT !.publish_topics = remove_publish_topic(@, k)]
    /\ rosCall' = Returned("other", "None")
    /\ UNCHANGED <<zmq, zmqCall, fc, worker>>

\* The publish threads that are between two ticks.
BetweenTicks(r) ==
    {i \in DOMAIN r.publish_threads : r.publish_threads[i].pc = "check"}

\* ROSBridgeClient.update_publish_content(topic_key, new_content)
RosUpdatePublishContent(k, c) ==
    /\ rosCall.pc = "idle"
    /\ ros' = [ros EXCEPT !.publish_topics = update_publish_content(@, k, c)]
    /\ rosCall' =
         IF KeyIndex(ros.publish_topics, k) # 0
         THEN [Returned("update_publish_content", "True") EXCEPT
                 !.topic = ros.publish_topics[KeyIndex(ros.publish_topics, k)].name,
                 !.content = c, !.between_ticks = BetweenTicks(ros)]
         ELSE Returned("update_publish_content", "False")
    /\ UNCHANGED <<zmq, zmqCall, fc, worker>>

\* ROSBridgeClient.update_publish_content_by_name(topic_name, new_content)
RosUpdatePublishContentByName(t, c) ==
    /\ rosCall.pc = "idle"
    /\ ros' = [ros EXCEPT !.publish_topics =
                  update_publish_content_by_name(@, t, c)]
    /\ rosCall' =
         IF FirstNamed(ros.publish_topics, t) # 0
         THEN [Returned("update_publish_content", "True") EXCEPT
                 !.topic = t, !.content = c,
                 !.between_ticks = BetweenTicks(ros)]
         ELSE Returned("update_publish_content", "False")
    /\ UNCHANGED <<zmq, zmqCall, fc, worker>>

\* A publish_loop thread as start_auto_publish starts it.
\*   generator       : a message_generator was given
\*   message_data    : the message_data argument
\*   current_message : the local of the tick in progress
\*   last_tick       : "skipped" when the last tick that tried to publish
\*                     sent nothing (the generator raised or
\*                     publish_message failed), else "sent"
\*   it_pos, it_used : the dict iterator of _get_dynamic_message_data: the
\*                     number of entries it has returned, and the size of
\*                     publish_topics when it was created
\* message_data is not read when a generator is given.
NewPublishThread(t, message_data, generator) ==
    [ topic |-> t, generator |-> generator,
      message_data |-> IF generator THEN "None" ELSE message_data,
      pc |-> "check", current_message |-> NoMessage, last_tick |-> "sent",
      it_pos |-> 0, it_used |-> 0 ]

\* ROSBridgeClient.start_auto_publish(topic_name, message_data, frequency,
\* message_generator): the thread is started and appended to
\* _publish_threads.
RosStartAutoPublish(t, message_data, generator) ==
    /\ rosCall.pc = "idle"
    /\ Len(ros.publish_threads) < MaxPublishThreads
    /\ IF t \in ros.publishers
       THEN /\ ros' = [ros EXCEPT !.publish_threads =
                          Append(@, NewPublishThread(t, message_data, generator))]
            /\ rosCall' = Returned("other", "True")
       ELSE /\ UNCHANGED ros
            /\ rosCall' = Returned("other", "False")
    /\ UNCHANGED <<zmq, zmqCall, fc, worker>>

\* ---- publish_loop -------------------------------------------------------

\* publish_loop: the test of 'while self.running'.
PublishLoopCheck(i) ==
    /\ i \in DOMAIN ros.publish_threads
    /\ ros.publish_threads[i].pc = "check"
    /\ ros' = [ros EXCEPT !.publish_threads[i].pc =
                  IF ros.running THEN "body" ELSE "exited"]
    /\ UNCHANGED <<rosCall, zmq, zmqCall, fc, worker>>

\* A tick whose generator raised or whose publish_message returned False
\* that ends the thread.
failed_tick_exits(thread) ==
    [thread EXCEPT !.pc = "exited", !.current_message = NoMessage,
                   !.last_tick = "skipped"]

\* publish_loop after a tick that sent nothing: the exception of the
\* generator is caught, the result of publish_message is ignored; the
\* thread sleeps and tests 'while self.running' again.
failed_tick(thread) ==
    [thread EXCEPT !.pc = "check", !.current_message = NoMessage,
                   !.last_tick = "skipped"]

\* publish_loop: the first half of a tick.  Not connected: only
\* time.sleep.  Connected: current_message comes from the generator (which
\* may raise) or from _get_dynamic_message_data.
PublishLoopBody(i) ==
    /\ i \in DOMAIN ros.publish_threads
    /\ ros.publish_threads[i].pc = "body"
    /\ LET th == ros.publish_threads[i]
       IN  IF ~is_connected(ros)
           THEN ros' = [ros EXCEPT !.publish_threads[i].pc = "check"]
           ELSE IF th.generator
           THEN \E raised \in BOOLEAN :
                  ros' = [ros EXCEPT !.publish_threads[i] =
                            IF raised THEN failed_tick(th)
                            ELSE [th EXCEPT !.pc = "publish",
                                            !.current_message = GeneratedMessage]]
           ELSE ros' = [ros EXCEPT !.publish_threads[i] =
                          [th EXCEPT !.pc = "publish",
                             !.current_message =
                                get_dynamic_message_data(ros.publish_topics,
                                                         th.topic, th.message_data)]]
    /\ UNCHANGED <<rosCall, zmq, zmqCall, fc, worker>>

\* publish_loop: the second half of a tick, publish_message(topic_name,
\* current_message) and time.sleep.  publish_message returns False when
\* the publisher is gone or publish() raises (raised).
PublishLoopPublish(i) ==
    /\ i \in DOMAIN ros.publish_threads
    /\ ros.publish_threads[i].pc = "publish"
    /\ LET th == ros.publish_threads[i]
       IN  \E raised \in BOOLEAN :
             ros' = [ros EXCEPT !.publish_threads[i] =
                       IF th.topic \notin ros.publishers \/ raised
                       THEN failed_tick(th)
                       ELSE [th EXCEPT !.pc = "check",
                                       !.current_message = NoMessage,
                                       !.last_tick = "sent"]]
    /\ UNCHANGED <<rosCall, zmq, zmqCall, fc, worker>>

\* Position of the i-th thread of _publish_threads ("none": not started).
PublishThreadPc(i) ==
    IF i \in DOMAIN ros.publish_threads THEN ros.publish_threads[i].pc
                                        ELSE "none"

RosLoopStep ==
    \E i \in 1..MaxPublishThreads :
       PublishLoopCheck(i) \/ PublishLoopBody(i) \/ PublishLoopPublish(i)


RosNext ==
    \/ RosStartCall
    \/ RosStartProbe
    \/ RosStartConnect
    \/ RosStartRetry
    \/ RosStartSetup
    \/ RosStop
    \/ RosDisconnect
    \/ \E t \in Topics : RosCreatePublisher(t)
    \/ \E t \in Topics : RosSubscribeTopic(t)
    \/ \E t \in Topics : RosAddPublishTopic("k1", t, "test")
    \/ RosRemovePublishTopic("k1")
    \/ \E t \in Topics : RosStartAutoPublish(t, "None", FALSE)
    \/ RosLoopStep

\* The publish loops with every way to start them, and the lifecycle
\* calls they depend on (start without retries, stop, disconnect,
\* create_publisher).
RosLoopNext ==
    \/ RosStartCall
    \/ RosStartProbe
    \/ RosStartConnect
    \/ RosStartSetup
    \/ RosStop
    \/ RosDisconnect
    \/ \E t \in Topics : RosCreatePublisher(t)
    \/ \E t \in Topics, m \in MessageData, g \in BOOLEAN :
          RosStartAutoPublish(t, m, g)
    \/ RosLoopStep

\* The same with the calls that write the publish_topics table.
RosPublishNext ==
    \/ RosLoopNext
    \/ \E k \in TopicKeys, t \in Topics, c \in Contents :
          RosAddPublishTopic(k, t, c)
    \/ \E k \in TopicKeys : RosRemovePublishTopic(k)
    \/ \E k \in TopicKeys, c \in Contents : RosUpdatePublishContent(k, c)
    \/ \E t \in Topics, c \in Contents : RosUpdatePublishContentByName(t, c)

\* ---- configuration updates -----------------------------------------------

\* ROSBridgeClient.add_subscribe_topic(topic)
RosAddSubscribeTopic(t) ==
    /\ rosCall.pc = "idle"
    /\ ros' = [ros EXCEPT !.subscribe_topics = @ \cup {t}]
    /\ rosCall' = Returned("other", "None")
    /\ UNCHANGED <<zmq, zmqCall, fc, worker>>

\* The configuration keys given to update_config: two boolean parameters
\* the model reads, and a key that no parameter class has.
ConfigKeys == {"auto_reconnect", "connectivity_check_enabled", "no_such_key"}

\* ParamManager.set_param followed by the attributes _apply_config copies
\* from the parameter store.
ros_set_param(r, key, value) ==
    CASE key = "auto_reconnect" -> [r EXCEPT !.auto_reconnect = value]
      [] key = "connectivity_check_enabled" ->
            [r EXCEPT !.connectivity_check_enabled = value]

\* ROSBridgeClient._apply_config : besides the copies from the parameter
\* store, 'self.subscribe_topics = {}' and 'self.publish_topics = {}'.
ros_apply_config(r) ==
    [r EXCEPT !.subscribe_topics = {}, !.publish_topics = << >>]

\* ROSBridgeClient.update_config(param_type, key, value) and
\* batch_update_config(param_type, {key: value}): set_param raises KeyError
\* for an unknown key, before _apply_config is called.
RosUpdateConfig(key, value) ==
    /\ rosCall.pc = "idle"
    /\ IF key = "no_such_key"
       THEN /\ UNCHANGED ros
            /\ rosCall' = Returned("update_config", "raised")
       ELSE /\ ros' = ros_apply_config(ros_set_param(ros, key, value))
            /\ rosCall' = Returned("update_config", "None")
    /\ UNCHANGED <<zmq, zmqCall, fc, worker>>

\* The topic tables and the configuration of a ROSBridgeClient.
RosConfigNext ==
    \/ \E t \in Topics : RosAddSubscribeTopic(t)
    \/ \E k \in TopicKeys, t \in Topics, c \in Contents : RosAddPublishTopic(k, t, c)
    \/ \E k \in TopicKeys : RosRemovePublishTopic(k)
    \/ \E key \in ConfigKeys, value \in BOOLEAN : RosUpdateConfig(key, value)

\* subscribe_topic, unsubscribe_topic and disconnect on a client that
\* start() connected.
RosSubscriptionNext ==
    \/ RosStartCall
    \/ RosStartProbe
    \/ RosStartConnect
    \/ RosStartSetup
    \/ RosDisconnect
    \/ \E t \in Topics, target_hz \in {0, 1} : RosSubscribeTopicHz(t, target_hz)
    \/ \E t \in Topics, raised \in BOOLEAN : RosUnsubscribeTopic(t, raised)

\* ---- a tick read entry by entry ------------------------------------------
\* _get_dynamic_message_data iterates over publish_topics.items() with no
\* lock, so a caller can write the dict between two entries.

\* The dict iterator's test before each entry: the size of the dict differs
\* from the size at the creation of the iterator (RuntimeError: dictionary
\* changed size during iteration).
dict_changed_size(pt, thread) == Len(pt) # thread.it_used

\* publish_loop (no generator, connected): _get_dynamic_message_data is
\* entered, 'for ... in self.publish_topics.items()' creates its iterator.
PublishLoopScanBegin(i) ==
    /\ i \in DOMAIN ros.publish_threads
    /\ ros.publish_threads[i].pc = "body"
    /\ ~ros.publish_threads[i].generator
    /\ ros' = [ros EXCEPT !.publish_threads[i] =
                 IF is_connected(ros)
                 THEN [@ EXCEPT !.pc = "scan", !.it_pos = 0,
                                !.it_used = Len(ros.publish_topics)]
                 ELSE [@ EXCEPT !.pc = "check"]]
    /\ UNCHANGED <<rosCall, zmq, zmqCall, fc, worker>>

\* _get_dynamic_message_data: the next entry of the iteration.  The
\* RuntimeError of the iterator is caught neither there nor in
\* publish_loop: the thread ends.  An entry with the topic's name gives the
\* message, the end of the dict gives the default message.
PublishLoopScanNext(i) ==
    /\ i \in DOMAIN ros.publish_threads
    /\ ros.publish_threads[i].pc = "scan"
    /\ LET th == ros.publish_threads[i]
           pt == ros.publish_topics
           scanned == [th EXCEPT !.it_pos = 0, !.it_used = 0]
       IN  ros' = [ros EXCEPT !.publish_threads[i] =
                     IF dict_changed_size(pt, th)
                     THEN [scanned EXCEPT !.pc = "exited", !.last_tick = "skipped"]
                     ELSE IF th.it_pos >= Len(pt)
                     THEN [scanned EXCEPT !.pc = "publish",
                              !.current_message =
                                 IF th.message_data = "None" THEN StringMessage("test")
                                 ELSE StringMessage(th.message_data)]
                     ELSE IF pt[th.it_pos + 1].name = th.topic
                     THEN [scanned EXCEPT !.pc = "publish",
                              !.current_message =
                                 StringMessage(pt[th.it_pos + 1].content)]
                     ELSE [th EXCEPT !.it_pos = @ + 1]]
    /\ UNCHANGED <<rosCall, zmq, zmqCall, fc, worker>>

\* A publish loop without generator between calls that write publish_topics.
RosScanNext ==
    \/ RosStartCall
    \/ RosStartProbe
    \/ RosStartConnect
    \/ RosStartSetup
    \/ RosStop
    \/ \E t \in Topics : RosCreatePublisher(t)
    \/ \E t \in Topics, m \in MessageData : RosStartAutoPublish(t, m, FALSE)
    \/ \E k \in TopicKeys, t \in Topics : RosAddPublishTopic(k, t, "c1")
    \/ \E k \in TopicKeys : RosRemovePublishTopic(k)
    \/ \E k \in TopicKeys : RosUpdatePublishContent(k, "c2")
    \/ \E i \in 1..MaxPublishThreads :
          \/ PublishLoopCheck(i)
          \/ PublishLoopScanBegin(i)
          \/ PublishLoopScanNext(i)
          \/ PublishLoopPublish(i)

\* ========================================================================
\* FrequencyController
\* ========================================================================

\* The target_hz arguments.  Time is counted in quarters of a second, so
\* that 1.0 / target_hz is exact for each of them.
Frequencies == {-1, 0, 1, 2, 4}

\* '1.0 / target_hz if target_hz > 0 else 0'
interval(target_hz) == IF target_hz > 0 THEN 4 \div target_hz ELSE 0

\* time.time() when the model starts: seconds since 1970, more than every
\* interval of the model.
StartTime == 1 + interval(1)

\* FrequencyController.__init__(target_hz), with the clock it reads.
\*   now        : time.time()
\*   op, ret    : the last method called on the controller and its result
\*   after      : the method called before the last should_process
\*   fired_prev, fired_last : the clock at the last two should_process that
\*                returned True, which are the last two invocations of the
\*                user callback of a subscription (0: none)
Controller(target_hz) ==
    [ target_hz |-> target_hz, interval |-> interval(target_hz), last_time |-> 0,
      now |-> StartTime, op |-> "init", ret |-> FALSE, after |-> "none",
      fired_prev |-> 0, fired_last |-> 0 ]

\* reset() without the assignment.
reset_keeps_last_time(c) == c

\* FrequencyController.reset()
reset(c) == [c EXCEPT !.last_time = 0]

\* FrequencyController.set_frequency(target_hz)
set_frequency(c, target_hz) ==
    reset([c EXCEPT !.target_hz = target_hz, !.interval = interval(target_hz)])

\* should_process() without the comparison.
should_process_unthrottled(c) == TRUE

\* FrequencyController.should_process() returns True.
should_process_result(c) ==
    c.interval <= 0 \/ c.now - c.last_time >= c.interval

\* should_process() without the assignment to last_time.
should_process_forgets(c) == c

\* FrequencyController.should_process(): the controller after the call.
should_process(c) ==
    IF c.interval > 0 /\ c.now - c.last_time >= c.interval
    THEN [c EXCEPT !.last_time = c.now]
    ELSE c

\* FrequencyController(target_hz): a new controller; subscribe_topic makes
\* one for a subscription with target_hz > 0.
FcCreate(target_hz) ==
    /\ fc' = [Controller(target_hz) EXCEPT !.now = fc.now]
    /\ UNCHANGED <<ros, rosCall, zmq, zmqCall, worker>>

\* should_process(), called directly or by the wrapped callback of a
\* subscription, which invokes the user callback when it returns True.
FcShouldProcess ==
    /\ fc' = [should_process(fc) EXCEPT
                !.op = "should_process",
                !.ret = should_process_result(fc),
                !.after = fc.op,
                !.fired_prev = IF should_process_result(fc) THEN fc.fired_last ELSE @,
                !.fired_last = IF should_process_result(fc) THEN fc.now ELSE @]
    /\ UNCHANGED <<ros, rosCall, zmq, zmqCall, worker>>

FcReset ==
    /\ fc' = [reset(fc) EXCEPT !.op = "reset"]
    /\ UNCHANGED <<ros, rosCall, zmq, zmqCall, worker>>

FcSetFrequency(target_hz) ==
    /\ fc' = [set_frequency(fc, target_hz) EXCEPT !.op = "set_frequency"]
    /\ UNCHANGED <<ros, rosCall, zmq, zmqCall, worker>>

\* Time passes.
FcTick ==
    /\ fc.now < StartTime + MaxClock
    /\ fc' = [fc EXCEPT !.now = @ + 1]
    /\ UNCHANGED <<ros, rosCall, zmq, zmqCall, worker>>

\* A controller used through all of its methods.
FcNext ==
    \/ \E target_hz \in Frequencies : FcCreate(target_hz)
    \/ FcShouldProcess
    \/ FcReset
    \/ \E target_hz \in Frequencies : FcSetFrequency(target_hz)
    \/ FcTick

\* The controller of a subscription: subscribe_topic creates it and only the
\* wrapped callback uses it.
FcSubscriptionNext ==
    \/ \E target_hz \in {h \in Frequencies : h > 0} : FcCreate(target_hz)
    \/ FcShouldProcess
    \/ FcTick

\* A second application thread, not inside a method of the ZMQClient.
WorkerIdle ==
    [ pc |-> "idle", op |-> "none", name |-> "", ret |-> "none",
      original_timeout |-> 0, outcome |-> "none" ]

\* ========================================================================
\* ZMQClient
\* ========================================================================

\* zmq_config['receive_timeout'] (milliseconds), read by _apply_config.
receive_timeout == 5000

\* The timeout arguments (seconds) given to request_reply.
Timeouts == {1, 2}

\* The create_* helpers, the socket type each one creates and whether it
\* connects (client role) or binds (server role).
\* The helpers the caller of the model uses.  create_push_client and
\* create_pull_server differ from create_pub_server and create_sub_client
\* only in the socket type, and PUSH/PULL sockets take the same branches as
\* PUB/SUB sockets in every method modelled here.
Patterns == {"req_client", "rep_server", "pub_server", "sub_client"}

SocketTypeOf(pattern) ==
    CASE pattern = "req_client"  -> "REQ"
      [] pattern = "rep_server"  -> "REP"
      [] pattern = "pub_server"  -> "PUB"
      [] pattern = "sub_client"  -> "SUB"
      [] pattern = "push_client" -> "PUSH"
      [] pattern = "pull_server" -> "PULL"

\* ---- Python values and byte strings ---------------------------------------
\* A byte string is a sequence of integers 0..255, a str a sequence of code
\* points (below 0x800 in this model).  A Python value is a record of its
\* type and its content.

PyNone == [type |-> "NoneType", val |-> << >>]
PyStr(s) == [type |-> "str", val |-> s]
PyBytes(b) == [type |-> "bytes", val |-> b]
PyInt(n) == [type |-> "int", val |-> <<n>>]

\* A value json.dumps cannot serialize and that is not bytes: object().
PyObject == [type |-> "object", val |-> << >>]

\* The call raised instead of returning a value.
Raised == [type |-> "raised", val |-> << >>]

\* No value: the callback was not invoked.
NoCall == [type |-> "nocall", val |-> << >>]

\* bool(value) for the values above.
Truthy(v) ==
    CASE v.type = "NoneType" -> FALSE
      [] v.type = "int"      -> v.val[1] # 0
      [] v.type = "object"   -> TRUE
      [] OTHER               -> v.val # << >>

\* str.encode('utf-8')
RECURSIVE utf8_encode(_)
utf8_encode(s) ==
    IF s = << >> THEN << >>
    ELSE LET c == Head(s)
         IN  (IF c < 128 THEN <<c>>
              ELSE <<192 + (c \div 64), 128 + (c % 64)>>)
             \o utf8_encode(Tail(s))

\* bytes.decode('utf-8') succeeds on b.
RECURSIVE utf8_valid(_)
utf8_valid(b) ==
    IF b = << >> THEN TRUE
    ELSE IF Head(b) < 128 THEN utf8_valid(Tail(b))
    ELSE IF Head(b) >= 194 /\ Head(b) <= 223 /\ Len(b) >= 2
            /\ b[2] >= 128 /\ b[2] <= 191
         THEN utf8_valid(Tail(Tail(b)))
    ELSE FALSE

\* bytes.decode('utf-8') of a valid b.
RECURSIVE utf8_decode(_)
utf8_decode(b) ==
    IF b = << >> THEN << >>
    ELSE IF Head(b) < 128 THEN <<Head(b)>> \o utf8_decode(Tail(b))
    ELSE <<(Head(b) - 192) * 64 + (b[2] - 128)>> \o utf8_decode(Tail(Tail(b)))

\* ---- json.dumps / json.loads (scalars) ------------------------------------
\* The characters '"' and '\' as one-character strings.
QuoteText == <<34>>
BackslashText == <<92>>

\* The text of the characters of a string inside a JSON string literal:
\* '"' and '\' are escaped with a backslash (ensure_ascii=False leaves the
\* other printable characters alone).
RECURSIVE json_escape(_)
json_escape(s) ==
    IF s = << >> THEN << >>
    ELSE (IF Head(s) \in {QuoteText[1], BackslashText[1]} THEN <<BackslashText[1], Head(s)>>
                                            ELSE <<Head(s)>>)
         \o json_escape(Tail(s))

\* The decimal digits of a natural number.
RECURSIVE digits(_)
digits(n) ==
    IF n < 10 THEN <<48 + n>> ELSE digits(n \div 10) \o <<48 + (n % 10)>>

\* The number written by a non-empty sequence of digits.
RECURSIVE number(_)
number(t) ==
    IF Len(t) = 1 THEN t[1] - 48
    ELSE number(SubSeq(t, 1, Len(t) - 1)) * 10 + (t[Len(t)] - 48)

\* the text 'null'
NullText == <<110, 117, 108, 108>>

\* json.dumps raises TypeError on bytes ("not JSON serializable").
json_serializable(v) == v.type \notin {"bytes", "object"}

\* json.dumps(data, ensure_ascii=False) of a serializable value.
json_dumps(v) ==
    CASE v.type = "str"      -> QuoteText \o json_escape(v.val) \o QuoteText
      [] v.type = "int"      -> digits(v.val[1])
      [] v.type = "NoneType" -> NullText

\* t is the inside of a JSON string literal.
RECURSIVE json_string_body(_)
json_string_body(t) ==
    IF t = << >> THEN TRUE
    ELSE IF Head(t) = BackslashText[1]
         THEN Len(t) >= 2 /\ t[2] \in {QuoteText[1], BackslashText[1]}
              /\ json_string_body(Tail(Tail(t)))
    ELSE Head(t) # QuoteText[1] /\ Head(t) >= 32 /\ json_string_body(Tail(t))

\* The string a valid JSON string body stands for.
RECURSIVE json_unescape(_)
json_unescape(t) ==
    IF t = << >> THEN << >>
    ELSE IF Head(t) = BackslashText[1] THEN <<t[2]>> \o json_unescape(Tail(Tail(t)))
    ELSE <<Head(t)>> \o json_unescape(Tail(t))

\* t is a JSON number without sign, fraction or leading zero.
json_is_number(t) ==
    /\ t # << >>
    /\ \A j \in DOMAIN t : t[j] >= 48 /\ t[j] <= 57
    /\ (Len(t) > 1 => t[1] # 48)

\* json.loads(text): the value, or Raised (JSONDecodeError).
json_loads(t) ==
    IF t = NullText THEN PyNone
    ELSE IF json_is_number(t) THEN PyInt(number(t))
    ELSE IF Len(t) >= 2 /\ t[1] = QuoteText[1] /\ t[Len(t)] = QuoteText[1]
            /\ json_string_body(SubSeq(t, 2, Len(t) - 1))
         THEN PyStr(json_unescape(SubSeq(t, 2, Len(t) - 1)))
    ELSE Raised

\* ---- _serialize_message / _deserialize_message ---------------------------

\* zmq_config['message_format']: the three known formats and another value.
Formats == {"json", "string", "bytes", "xml"}

\* str(data) for the values above.
py_str(v) ==
    CASE v.type = "str"      -> v.val
      [] v.type = "int"      -> digits(v.val[1])
      [] v.type = "NoneType" -> <<78, 111, 110, 101>>
      [] v.type = "bytes"    -> <<98, 39>> \o v.val \o <<39>>
      [] v.type = "object"   -> <<60, 111, 62>>

\* The JSON branch of _serialize_message; an exception is caught by the
\* method, which then returns b''.
serialize_json(v) ==
    IF ~json_serializable(v) THEN << >> ELSE utf8_encode(json_dumps(v))

\* _serialize_message(data) goes through its except clause.
serialize_fails(fmt, v) == fmt \notin {"string", "bytes"} /\ ~json_serializable(v)

\* ZMQClient._serialize_message(data) under message_format fmt.
serialize_message(fmt, v) ==
    CASE fmt = "json"   -> serialize_json(v)
      [] fmt = "string" -> utf8_encode(py_str(v))
      [] fmt = "bytes"  -> IF v.type = "bytes" THEN v.val
                                              ELSE utf8_encode(py_str(v))
      [] OTHER          -> serialize_json(v)

\* data.decode(encoding); json.loads(json_str), with the exception either
\* of them raises.
decode_json(b) ==
    IF ~utf8_valid(b) THEN Raised ELSE json_loads(utf8_decode(b))

\* data.decode(encoding), with its exception.
decode_string(b) ==
    IF ~utf8_valid(b) THEN Raised ELSE PyStr(utf8_decode(b))

\* The value a branch of _deserialize_message produced: an exception is
\* caught by the method, which then returns None.
none_if_raised(v) == IF v = Raised THEN PyNone ELSE v

\* ZMQClient._deserialize_message(data) under message_format fmt.  Only the
\* branch of an unknown format falls back to the decoded string.
deserialize_message(fmt, b) ==
    CASE fmt = "json"   -> none_if_raised(decode_json(b))
      [] fmt = "string" -> none_if_raised(decode_string(b))
      [] fmt = "bytes"  -> PyBytes(b)
      [] OTHER          -> IF decode_json(b) # Raised THEN decode_json(b)
                           ELSE none_if_raised(decode_string(b))

\* ---- the client object ---------------------------------------------------

\* ZMQClient.__init__ : context, sockets, running, threads.
\* socks is the heap of zmq.Socket objects ever created on the context;
\* sockets maps a name to the index of its socket (NoSock: name absent).
\* _apply_config sets continue_on_error = True and reads message_format
\* from the configuration, whose default is 'json'.
ZmqObject ==
    [ context           |-> "open",
      sockets           |-> [n \in Names |-> NoSock],
      socks             |-> << >>,
      running           |-> FALSE,
      threads           |-> << >>,
      continue_on_error |-> TRUE,
      message_format    |-> "json",
      connected_endpoints |-> {} ]

\* The topics argument of create_sub_client: None (the default) or a list of
\* str.
NoTopics == [given |-> FALSE, list |-> << >>]
TopicList(list) == [given |-> TRUE, list |-> list]

\* The caller's position inside a ZMQClient method and the last return.
\*   name             : the socket_name argument of the call
\*   original_timeout : the local of request_reply
\*   rcvtimeo_at_call : RCVTIMEO of the named socket when request_reply was
\*                      entered (0: no such socket)
\*   outcome          : how the receive of request_reply ended
\*   join_index       : position of stop() in 'for thread in self.threads'
\*   data, encoded    : argument and result of _serialize_message
\*   decoded          : result of _deserialize_message(encoded)
\*   topic_name, data, frames : arguments and result of create_ros_message
\*   data, frames     : send_message: its argument, and what it handed to
\*                      socket.send
\*   parts, frames    : send_multipart_message: its argument, and what it
\*                      handed to socket.send_multipart
\*   topics, calls    : create_sub_client: its argument, and the calls it
\*                      made on the new socket, in order
ZmqIdle ==
    [ pc |-> "idle", op |-> "none", name |-> "", ret |-> "none",
      original_timeout |-> 0, rcvtimeo_at_call |-> 0, outcome |-> "none",
      join_index |-> 0,
      data |-> NoCall, encoded |-> << >>, decoded |-> NoCall,
      topic_name |-> << >>, frames |-> << >>, parts |-> << >>,
      topics |-> NoTopics, calls |-> << >> ]

ZReturned(op, name, ret) ==
    [ZmqIdle EXCEPT !.op = op, !.name = name, !.ret = ret]

\* ZMQClient._configure_socket : RCVTIMEO is set when receive_timeout > 0,
\* otherwise the socket keeps the library default (-1).
configured_rcvtimeo == IF receive_timeout > 0 THEN receive_timeout ELSE -1

\* A zmq.Socket as context.socket(type) plus _configure_socket leave it.
\* pending is the lock-step state of a REQ (request sent, reply not yet
\* received) or REP (request received, reply not yet sent) socket.
NewSocket(type) ==
    [ socket_type |-> type, closed |-> FALSE,
      RCVTIMEO |-> configured_rcvtimeo, pending |-> FALSE ]

\* ZMQClient.create_socket : the new socket is stored under socket_name;
\* context.socket() raises on a terminated context (the method returns None).
create_socket(z, type, name) ==
    IF z.context = "terminated" THEN z
    ELSE [z EXCEPT !.socks = Append(@, NewSocket(type)),
                   !.sockets[name] = Len(z.socks) + 1]

\* The endpoint a create_* client helper connects to when none is given:
\* tcp://{default_host}:{default_port}.
DefaultEndpoint == "tcp://default_host:default_port"

\* The helpers that call connect_socket; the others call bind_socket.
Connects(pattern) == pattern \in {"req_client", "sub_client", "push_client"}

\* ZMQClient.connect_socket : socket.connect(endpoint), then
\* connected_endpoints.add(endpoint); ok is whether connect did not raise.
connect_socket(z, endpoint, ok) ==
    IF ok THEN [z EXCEPT !.connected_endpoints = @ \cup {endpoint}] ELSE z

\* A create_* helper: create_socket, then connect_socket or bind_socket
\* unless create_socket returned None.
create_pattern(z, pattern, name, ok) ==
    IF z.context = "terminated" THEN z
    ELSE IF Connects(pattern)
         THEN connect_socket(create_socket(z, SocketTypeOf(pattern), name),
                             DefaultEndpoint, ok)
         ELSE create_socket(z, SocketTypeOf(pattern), name)

\* zmq.Socket.close() : the underlying socket is destroyed; of the Python
\* object only the closed flag stays observable (reading an option of a
\* closed socket raises).
ClosedSocket ==
    [ socket_type |-> "none", closed |-> TRUE, RCVTIMEO |-> 0, pending |-> FALSE ]

\* close_socket that closes the socket but leaves the name in the registry.
close_socket_keeps_name(z, name) ==
    IF z.sockets[name] # NoSock
    THEN [z EXCEPT !.socks[z.sockets[name]] = ClosedSocket]
    ELSE z

\* ZMQClient.close_socket : the state it leaves.
close_socket(z, name) ==
    IF z.sockets[name] # NoSock
    THEN [z EXCEPT !.socks[z.sockets[name]] = ClosedSocket,
                   !.sockets[name] = NoSock]
    ELSE z

\* ZMQClient.close_socket : its return value.
close_socket_result(z, name) ==
    IF z.sockets[name] # NoSock THEN "True" ELSE "False"

\* A stop() whose close loop ends after the first socket.
close_first_only(z, names) ==
    IF names = {} THEN z
    ELSE close_socket(z, CHOOSE x \in names : TRUE)

\* stop(): 'for socket_name in list(self.sockets.keys()): close_socket(..)'
RECURSIVE close_all(_, _)
close_all(z, names) ==
    IF names = {} THEN z
    ELSE LET n == CHOOSE x \in names : TRUE
         IN  close_all(close_socket(z, n), names \ {n})

RegisteredNames(z) == {n \in Names : z.sockets[n] # NoSock}

\* The zmq.Socket registered under a name.
SocketOf(z, name) == z.socks[z.sockets[name]]

\* zmq.Socket.send succeeds only in a state where the type may send.
CanSend(sock) ==
    /\ ~sock.closed
    /\ \/ sock.socket_type \in {"PUB", "PUSH"}
       \/ sock.socket_type = "REQ" /\ ~sock.pending
       \/ sock.socket_type = "REP" /\ sock.pending

\* zmq.Socket.recv can deliver a message only in a state where the type may
\* receive; otherwise it raises.
CanRecv(sock) ==
    /\ ~sock.closed
    /\ \/ sock.socket_type \in {"SUB", "PULL"}
       \/ sock.socket_type = "REQ" /\ sock.pending
       \/ sock.socket_type = "REP" /\ ~sock.pending

\* The lock-step state after a successful send / receive.
AfterSend(sock) ==
    IF sock.socket_type = "REQ" THEN [sock EXCEPT !.pending = TRUE]
    ELSE IF sock.socket_type = "REP" THEN [sock EXCEPT !.pending = FALSE]
    ELSE sock

AfterRecv(sock) ==
    IF sock.socket_type = "REQ" THEN [sock EXCEPT !.pending = FALSE]
    ELSE IF sock.socket_type = "REP" THEN [sock EXCEPT !.pending = TRUE]
    ELSE sock

\* ---- registry operations -------------------------------------------------

\* ZMQClient.create_req_client / create_rep_server / create_pub_server /
\* create_sub_client / create_push_client / create_pull_server :
\* create_socket, then connect_socket or bind_socket, whose outcome is ok.
ZmqCreate(pattern, name, ok) ==
    /\ zmqCall.pc = "idle"
    /\ Len(zmq.socks) < MaxSockets
    /\ zmq' = create_pattern(zmq, pattern, name, ok)
    /\ zmqCall' = ZReturned("other", "",
                     IF zmq.context = "terminated" \/ ~ok THEN "False"
                                                          ELSE "True")
    /\ UNCHANGED <<ros, rosCall, fc, worker>>

\* ZMQClient.close_socket(socket_name)
ZmqCloseSocket(name) ==
    /\ zmqCall.pc = "idle"
    /\ zmq' = close_socket(zmq, name)
    /\ zmqCall' = ZReturned("close_socket", name, close_socket_result(zmq, name))
    /\ UNCHANGED <<ros, rosCall, fc, worker>>

\* The thread start_subscriber_loop / start_server_loop creates.
\*   delivered : the argument the callback was invoked with in the step the
\*               thread has just made (NoCall: the step invoked no callback)
NewThread(loop, name) ==
    [loop |-> loop, socket_name |-> name, pc |-> "check", delivered |-> NoCall]

\* ZMQClient.start_subscriber_loop / start_server_loop : the thread is
\* started and appended to self.threads.
ZmqStartLoopWithin(limit, loop, name) ==
    /\ zmqCall.pc = "idle"
    /\ Len(zmq.threads) < limit
    /\ zmq' = [zmq EXCEPT !.threads =
                 Append(@, NewThread(loop, name))]
    /\ zmqCall' = ZReturned("other", "", "None")
    /\ UNCHANGED <<ros, rosCall, fc, worker>>

ZmqStartLoop(loop, name) == ZmqStartLoopWithin(MaxThreads, loop, name)

\* ZMQClient.start() : the probe result is only logged; patterns_config is
\* empty after _apply_config, so setup_configured_patterns creates nothing.
ZmqStart ==
    /\ zmqCall.pc = "idle"
    /\ \E reachable \in BOOLEAN :
         /\ zmq' = [zmq EXCEPT !.running = TRUE]
         /\ zmqCall' = ZReturned("other", "", "True")
    /\ UNCHANGED <<ros, rosCall, fc, worker>>

\* ---- stop() --------------------------------------------------------------

\* stop(): self.running = False, then the join loop begins.
ZmqStopBegin ==
    /\ zmqCall.pc = "idle"
    /\ zmq' = [zmq EXCEPT !.running = FALSE]
    /\ zmqCall' = [ZmqIdle EXCEPT !.pc = "stop_join", !.join_index = 1]
    /\ UNCHANGED <<ros, rosCall, fc, worker>>

\* stop(): 'if thread.is_alive(): thread.join(timeout=1.0)' for the next
\* thread of self.threads; the join returns when the thread has exited or
\* when the timeout has elapsed.
ZmqStopJoin ==
    /\ zmqCall.pc = "stop_join"
    /\ zmqCall.join_index <= Len(zmq.threads)
    /\ zmqCall' = [zmqCall EXCEPT !.join_index = @ + 1]
    /\ UNCHANGED <<zmq, ros, rosCall, fc, worker>>

\* stop(): close every registered socket, terminate the context, return.
ZmqStopFinish ==
    /\ zmqCall.pc = "stop_join"
    /\ zmqCall.join_index > Len(zmq.threads)
    /\ zmq' = [close_all(zmq, RegisteredNames(zmq)) EXCEPT !.context = "terminated"]
    /\ zmqCall' = [ZReturned("stop", "", "None")
                      EXCEPT !.join_index = zmqCall.join_index]
    /\ UNCHANGED <<ros, rosCall, fc, worker>>

\* ---- request_reply -------------------------------------------------------

\* int(timeout * 1000)
timeout_ms(timeout) == timeout * 1000

\* A request_reply that restores the timeout on the reply path only.
restore_on_reply_only(sock, original_timeout, outcome) ==
    IF outcome = "reply" THEN [sock EXCEPT !.RCVTIMEO = original_timeout]
                         ELSE sock

\* request_reply: 'finally: setsockopt(zmq.RCVTIMEO, original_timeout)';
\* outcome is how receive_message ended (reply, timeout, error).
restore_timeout(sock, original_timeout, outcome) ==
    [sock EXCEPT !.RCVTIMEO = original_timeout]

\* request_reply(socket_name, request_data, timeout): send_message, then
\* getsockopt and setsockopt of RCVTIMEO.  A failed send returns None.
ZmqRequestReply(name, timeout) ==
    /\ zmqCall.pc = "idle"
    /\ IF zmq.sockets[name] = NoSock
       THEN /\ zmqCall' = ZReturned("request_reply", name, "None")
            /\ UNCHANGED zmq
       ELSE LET id   == zmq.sockets[name]
                sock == zmq.socks[id]
            IN  IF ~CanSend(sock)
                THEN /\ zmqCall' = [ZReturned("request_reply", name, "None")
                                       EXCEPT !.rcvtimeo_at_call = sock.RCVTIMEO]
                     /\ UNCHANGED zmq
                ELSE /\ zmq' = [zmq EXCEPT !.socks[id] =
                                   [AfterSend(sock) EXCEPT
                                       !.RCVTIMEO = timeout_ms(timeout)]]
                     /\ zmqCall' = [ZmqIdle EXCEPT
                                       !.pc = "rr_recv", !.name = name,
                                       !.original_timeout = sock.RCVTIMEO,
                                       !.rcvtimeo_at_call = sock.RCVTIMEO]
    /\ UNCHANGED <<ros, rosCall, fc, worker>>

\* request_reply: receive_message under the temporary timeout, then the
\* finally clause, then return.
ZmqRequestReplyRecv ==
    /\ zmqCall.pc = "rr_recv"
    /\ LET name == zmqCall.name
           id   == zmq.sockets[name]
           sock == zmq.socks[id]
       IN  \E outcome \in (IF CanRecv(sock) THEN {"reply", "timeout", "error"}
                                           ELSE {"error"}) :
             /\ zmq' = [zmq EXCEPT !.socks[id] =
                          restore_timeout(
                             IF outcome = "reply" THEN AfterRecv(sock) ELSE sock,
                             zmqCall.original_timeout, outcome)]
             /\ zmqCall' = [ZReturned("request_reply", name,
                                      IF outcome = "reply" THEN "reply" ELSE "None")
                               EXCEPT !.original_timeout = zmqCall.original_timeout,
                                      !.rcvtimeo_at_call = zmqCall.rcvtimeo_at_call,
                                      !.outcome = outcome]
    /\ UNCHANGED <<ros, rosCall, fc, worker>>

\* ---- subscriber_loop / server_loop ---------------------------------------

\* Position of the i-th thread of self.threads ("none": not started).
ThreadPc(i) ==
    IF i \in DOMAIN zmq.threads THEN zmq.threads[i].pc ELSE "none"

\* A thread whose loop function has returned: threading.Thread.run drops
\* its target, and the frame that held socket_name is gone.
ExitedThread ==
    [loop |-> "none", socket_name |-> "", pc |-> "exited", delivered |-> NoCall]

\* Both loops: the test of 'while self.running'.
ZmqLoopCheck(i) ==
    /\ ThreadPc(i) = "check"
    /\ zmq' = [zmq EXCEPT !.threads[i] =
                  IF zmq.running THEN [@ EXCEPT !.pc = "body", !.delivered = NoCall]
                                 ELSE ExitedThread]
    /\ UNCHANGED <<zmqCall, ros, rosCall, fc, worker>>

\* The except clause without the test of continue_on_error.
after_exception_continues(z, thread) == [thread EXCEPT !.pc = "check"]

\* The thread after an exception in the body of its loop: back to the loop
\* test, or out of the loop ('break') when continue_on_error is off.
after_exception(z, thread) ==
    IF z.continue_on_error THEN [thread EXCEPT !.pc = "check"] ELSE ExitedThread

\* A non-blocking receive on the named socket can deliver a message.
MessageDeliverable(z, name) ==
    z.sockets[name] # NoSock /\ CanRecv(SocketOf(z, name))

\* subscriber_loop: one tick.  Without a message the loop sleeps; with one
\* the callback runs and either returns or raises.
ZmqSubscriberBody(i) ==
    /\ ThreadPc(i) = "body"
    /\ zmq.threads[i].loop = "subscriber"
    /\ LET name == zmq.threads[i].socket_name
       IN  \/ zmq' = [zmq EXCEPT !.threads[i].pc = "check"]
           \/ /\ MessageDeliverable(zmq, name)
              /\ \E raised \in BOOLEAN :
                   zmq' = [zmq EXCEPT
                      !.socks[zmq.sockets[name]] = AfterRecv(@),
                      !.threads[i] =
                          IF raised THEN after_exception(zmq, @)
                                    ELSE [@ EXCEPT !.pc = "check"]]
    /\ UNCHANGED <<zmqCall, ros, rosCall, fc, worker>>

\* ---- subscriber_loop, frame by frame ------------------------------------

\* struct.pack('<I', n) and struct.pack('>I', n)
pack_little(n) ==
    << n % 256, (n \div 256) % 256, (n \div 65536) % 256,
       (n \div 16777216) % 256 >>

pack_big(n) ==
    << (n \div 16777216) % 256, (n \div 65536) % 256, (n \div 256) % 256,
       n % 256 >>

\* sys.byteorder of the host.
ByteOrders == {"little", "big"}

\* struct.pack('I', n): native byte order.
pack_native(byteorder, n) ==
    IF byteorder = "little" THEN pack_little(n) ELSE pack_big(n)

\* zmqclient.create_ros_message(topic_name, content) on a host of the given
\* byte order: [topic_frame, data_length_frame, message_data].
create_ros_message(byteorder, topic_name, content) ==
    LET topic_frame == utf8_encode(topic_name)
        content_bytes == utf8_encode(content)
        message_data == pack_little(Len(content_bytes)) \o content_bytes
    IN  << topic_frame, pack_native(byteorder, Len(message_data)), message_data >>

\* The strings given to create_ros_message: 't', and 'a', the one-character
\* string U+00E9 and 'aa'.
RosTopicNames == {<<116>>}
RosContents == {<<97>>, <<233>>, <<97, 97>>}

\* The frames a peer sends: b'', b'a', b'"a"' and b'0'.
Frames == {<< >>, <<97>>, <<34, 97, 34>>, <<48>>}

\* A 3-frame message whose length frame is one more than the length of its
\* payload frame.
wrong_length_message(byteorder, topic_name, content) ==
    LET m == create_ros_message(byteorder, topic_name, content)
    IN  [m EXCEPT ![2] = pack_native(byteorder, Len(m[3]) + 1)]

\* The messages recv_multipart delivers: one to three frames of a peer, the
\* messages create_ros_message builds, and those with a wrong length frame.
Messages ==
    UNION {[1..n -> Frames] : n \in 1..3}
    \cup {create_ros_message(o, t, c) :
             o \in ByteOrders, t \in RosTopicNames, c \in RosContents}
    \cup {wrong_length_message(o, t, c) :
             o \in ByteOrders, t \in RosTopicNames, c \in RosContents}

\* Two messages of one frame: b'"a"', for which the callback is invoked
\* under the default format, and b'', for which it is not.
OneFrameMessages == { << <<34, 97, 34>> >>, << << >> >> }

\* receive_multipart_message: every frame goes through _deserialize_message.
data_parts(fmt, frames) ==
    [j \in DOMAIN frames |-> deserialize_message(fmt, frames[j])]

\* 'not isinstance(x, bytes) or len(x) > 0'
not_empty_bytes(v) == v.type # "bytes" \/ Len(v.val) > 0

\* subscriber_loop, the branch of len(message_parts) >= 2: the local
\* 'content' when the callback test is reached.
resolved_content(message_parts) ==
    IF Len(message_parts) >= 3
       /\ Truthy(message_parts[3]) /\ not_empty_bytes(message_parts[3])
    THEN message_parts[3]
    ELSE message_parts[2]

\* subscriber_loop: the argument callback is invoked with for the received
\* message_parts, NoCall when it is not invoked.
callback_argument(message_parts) ==
    IF Len(message_parts) >= 2
    THEN LET content == resolved_content(message_parts)
         IN  IF content # PyNone /\ not_empty_bytes(content) THEN content
                                                             ELSE NoCall
    ELSE IF Len(message_parts) = 1 /\ message_parts[1] # PyNone
         THEN message_parts[1]
    ELSE NoCall

\* subscriber_loop: one tick in which recv_multipart delivers frames.  The
\* callback, when invoked, returns or raises.
ZmqSubscriberTick(i, frames, raised) ==
    /\ ThreadPc(i) = "body"
    /\ zmq.threads[i].loop = "subscriber"
    /\ MessageDeliverable(zmq, zmq.threads[i].socket_name)
    /\ LET name == zmq.threads[i].socket_name
           argument == callback_argument(data_parts(zmq.message_format, frames))
       IN  zmq' = [zmq EXCEPT
                     !.socks[zmq.sockets[name]] = AfterRecv(@),
                     !.threads[i] =
                        IF argument # NoCall /\ raised
                        THEN [after_exception(zmq, @) EXCEPT !.delivered = argument]
                        ELSE [@ EXCEPT !.pc = "check", !.delivered = argument]]
    /\ UNCHANGED <<zmqCall, ros, rosCall, fc, worker>>

\* subscriber_loop: a tick without a message sleeps.
ZmqSubscriberIdle(i) ==
    /\ ThreadPc(i) = "body"
    /\ zmq.threads[i].loop = "subscriber"
    /\ zmq' = [zmq EXCEPT !.threads[i].pc = "check"]
    /\ UNCHANGED <<zmqCall, ros, rosCall, fc, worker>>

\* client.continue_on_error = value : the attribute is public and
\* _apply_config never reads it from the configuration.
ZmqSetContinueOnError(value) ==
    /\ zmqCall.pc = "idle"
    /\ zmq' = [zmq EXCEPT !.continue_on_error = value]
    /\ zmqCall' = ZReturned("other", "", "None")
    /\ UNCHANGED <<ros, rosCall, fc, worker>>

\* ---- send and receive methods ----------------------------------------------

\* The arguments of send_message: 'a' and object(); the parts lists of
\* send_multipart_message: [b'a', 'a'] and [b'a', object()].
SendPayloads == {PyStr(<<97>>), PyObject}
SendParts == { <<PyBytes(<<97>>), PyStr(<<97>>)>>, <<PyBytes(<<97>>), PyObject>> }

\* ZMQClient.send_message(socket_name, data)
ZmqSendMessage(name, data) ==
    /\ zmqCall.pc = "idle"
    /\ LET message_bytes == serialize_message(zmq.message_format, data)
           sent == /\ zmq.sockets[name] # NoSock
                   /\ message_bytes # << >>
                   /\ CanSend(SocketOf(zmq, name))
       IN  /\ zmq' = IF sent THEN [zmq EXCEPT !.socks[zmq.sockets[name]] = AfterSend(@)]
                             ELSE zmq
           /\ zmqCall' = [ZReturned("send_message", name,
                                     IF sent THEN "True" ELSE "False") EXCEPT
                            !.data = data,
                            !.frames = IF sent THEN <<message_bytes>> ELSE << >>]
    /\ UNCHANGED <<ros, rosCall, fc, worker>>

\* send_multipart_message: the list given to socket.send_multipart.
message_parts(fmt, parts) ==
    [j \in DOMAIN parts |->
        IF parts[j].type = "bytes" THEN parts[j].val
                                   ELSE serialize_message(fmt, parts[j])]

\* ZMQClient.send_multipart_message(socket_name, parts)
ZmqSendMultipart(name, parts) ==
    /\ zmqCall.pc = "idle"
    /\ LET sent == /\ zmq.sockets[name] # NoSock
                   /\ CanSend(SocketOf(zmq, name))
       IN  /\ zmq' = IF sent THEN [zmq EXCEPT !.socks[zmq.sockets[name]] = AfterSend(@)]
                             ELSE zmq
           /\ zmqCall' = [ZReturned("send_multipart_message", name,
                                     IF sent THEN "True" ELSE "False") EXCEPT
                            !.parts = parts,
                            !.frames = IF sent
                                       THEN message_parts(zmq.message_format, parts)
                                       ELSE << >>]
    /\ UNCHANGED <<ros, rosCall, fc, worker>>

\* ZMQClient.receive_message(socket_name) and
\* receive_multipart_message(socket_name): the result is the decoded message
\* when the socket delivers one, and None (an empty list for multipart)
\* when the name is missing, on zmq.Again and on an error.
ZmqReceive(op, name) ==
    /\ zmqCall.pc = "idle"
    /\ \E arrived \in BOOLEAN :
         LET received == arrived /\ MessageDeliverable(zmq, name)
             nothing  == IF op = "receive_message" THEN "None" ELSE "[]"
         IN  /\ zmq' = IF received
                       THEN [zmq EXCEPT !.socks[zmq.sockets[name]] = AfterRecv(@)]
                       ELSE zmq
             /\ zmqCall' = ZReturned(op, name, IF received THEN "value" ELSE nothing)
    /\ UNCHANGED <<ros, rosCall, fc, worker>>

\* A connect_to_remote_host that treats every other type as 'req'.
remote_pattern_defaults_to_req(socket_type) ==
    CASE socket_type = "sub"  -> "sub_client"
      [] socket_type = "push" -> "push_client"
      [] OTHER                -> "req_client"

\* connect_to_remote_host: the create_* helper chosen for socket_type.
remote_pattern(socket_type) ==
    CASE socket_type = "req"  -> "req_client"
      [] socket_type = "sub"  -> "sub_client"
      [] socket_type = "push" -> "push_client"
      [] OTHER                -> "none"

\* ZMQClient.connect_to_remote_host(host, port, socket_type, socket_name,
\* topics, auto_start_loop): ok is the outcome of connect_socket.
ZmqConnectToRemoteHost(socket_type, name, auto_start_loop, ok) ==
    /\ zmqCall.pc = "idle"
    /\ remote_pattern(socket_type) # "none" => Len(zmq.socks) < MaxSockets
    /\ (socket_type = "sub" /\ auto_start_loop) => Len(zmq.threads) < MaxThreads
    /\ LET pattern == remote_pattern(socket_type)
           success == pattern # "none" /\ zmq.context # "terminated" /\ ok
           z1 == IF pattern = "none" THEN zmq
                 ELSE create_pattern(zmq, pattern, name, ok)
       IN  /\ zmq' = IF success /\ socket_type = "sub" /\ auto_start_loop
                     THEN [z1 EXCEPT !.threads = Append(@, NewThread("subscriber", name))]
                     ELSE z1
           /\ zmqCall' = ZReturned("connect_to_remote_host", name,
                                   IF success THEN "True" ELSE "False")
    /\ UNCHANGED <<ros, rosCall, fc, worker>>

\* ---- the codec, called directly ------------------------------------------

\* The payloads given to _serialize_message: None, 0, 12, '', 'a', 'a"',
\* the one-character string U+00E9, b'', b'a', b'\xff' and object().
Payloads ==
    { PyNone, PyInt(0), PyInt(12), PyObject,
      PyStr(<< >>), PyStr(<<97>>), PyStr(<<97, QuoteText[1]>>), PyStr(<<233>>),
      PyBytes(<< >>), PyBytes(<<97>>), PyBytes(<<255>>) }

\* The byte strings given to _deserialize_message.
Encodings == Frames \cup {<<255>>, NullText, <<49, 50>>}

\* ZMQClient._serialize_message(data)
ZmqSerialize(data) ==
    /\ zmqCall.pc = "idle"
    /\ zmqCall' = [ZReturned("serialize", "", "bytes") EXCEPT
                     !.data = data,
                     !.encoded = serialize_message(zmq.message_format, data)]
    /\ UNCHANGED <<zmq, ros, rosCall, fc, worker>>

\* ZMQClient._deserialize_message(encoded)
ZmqDeserialize(encoded) ==
    /\ zmqCall.pc = "idle"
    /\ zmqCall' = [ZReturned("deserialize", "", "value") EXCEPT
                     !.encoded = encoded,
                     !.decoded = deserialize_message(zmq.message_format, encoded)]
    /\ UNCHANGED <<zmq, ros, rosCall, fc, worker>>

\* ZMQClient._deserialize_message applied to what _serialize_message has
\* just returned.
ZmqDeserializeSerialized ==
    /\ zmqCall.pc = "idle"
    /\ zmqCall.op = "serialize"
    /\ zmqCall' = [zmqCall EXCEPT
                     !.op = "round_trip", !.ret = "value",
                     !.decoded = deserialize_message(zmq.message_format,
                                                     zmqCall.encoded)]
    /\ UNCHANGED <<zmq, ros, rosCall, fc, worker>>

\* zmqclient.create_ros_message(topic_name, content) on a host of the given
\* byte order.
ZmqCreateRosMessage(byteorder, topic_name, content) ==
    /\ zmqCall.pc = "idle"
    /\ zmqCall' = [ZReturned("create_ros_message", "", "list") EXCEPT
                     !.topic_name = topic_name,
                     !.data = PyStr(content),
                     !.frames = create_ros_message(byteorder, topic_name, content)]
    /\ UNCHANGED <<zmq, ros, rosCall, fc, worker>>

\* What handler(request) does: return a value, return None, or raise.
HandlerOutcomes == {"value", "None", "raise"}

\* server_loop: the reply branch.  A reply is sent when the name is still
\* registered, the socket is a REP socket and the response is not None.
reply_sent(z, name, response) ==
    /\ z.sockets[name] # NoSock
    /\ SocketOf(z, name).socket_type = "REP"
    /\ response # "None"
    /\ CanSend(SocketOf(z, name))

\* server_loop: one tick.  decoded tells whether _deserialize_message
\* produced a value (a request) or None.
ZmqServerBody(i) ==
    /\ ThreadPc(i) = "body"
    /\ zmq.threads[i].loop = "server"
    /\ LET name == zmq.threads[i].socket_name
       IN  \/ zmq' = [zmq EXCEPT !.threads[i].pc = "check"]
           \/ /\ MessageDeliverable(zmq, name)
              /\ \E decoded \in BOOLEAN, response \in HandlerOutcomes :
                   LET id == zmq.sockets[name]
                       z1 == [zmq EXCEPT !.socks[id] = AfterRecv(@)]
                   IN  IF ~decoded
                       THEN zmq' = [z1 EXCEPT !.threads[i].pc = "check"]
                       ELSE IF response = "raise"
                       THEN zmq' = [z1 EXCEPT !.threads[i] = after_exception(zmq, @)]
                       ELSE IF reply_sent(z1, name, response)
                       THEN zmq' = [z1 EXCEPT !.socks[id] = AfterSend(@),
                                              !.threads[i].pc = "check"]
                       ELSE zmq' = [z1 EXCEPT !.threads[i].pc = "check"]
    /\ UNCHANGED <<zmqCall, ros, rosCall, fc, worker>>

\* ---- create_sub_client ----------------------------------------------------

\* The topics arguments: None, [], ['t'], ['t', 'é'] and ['é', 't'].
TopicLists ==
    { NoTopics, TopicList(<< >>), TopicList(<< <<116>> >>),
      TopicList(<< <<116>>, <<233>> >>), TopicList(<< <<233>>, <<116>> >>) }

\* socket.setsockopt(zmq.SUBSCRIBE, value) and socket.connect(endpoint) as
\* entries of the list of calls made on a socket.
SubscribeCall(value) == [call |-> "setsockopt", option |-> "SUBSCRIBE", value |-> value]
ConnectCall == [call |-> "connect", option |-> "", value |-> << >>]

\* create_sub_client: the calls of 'if topics: for topic in topics:
\* setsockopt_string(SUBSCRIBE, topic) else: setsockopt(SUBSCRIBE, b"")';
\* setsockopt_string encodes the topic as utf-8.
subscribe_calls(topics) ==
    IF topics.given /\ topics.list # << >>
    THEN [i \in 1..Len(topics.list) |-> SubscribeCall(utf8_encode(topics.list[i]))]
    ELSE << SubscribeCall(<< >>) >>

\* A create_sub_client that connects the socket before it subscribes.
sub_client_calls_connect_first(topics) == <<ConnectCall>> \o subscribe_calls(topics)

\* create_sub_client: the calls on the socket create_socket returned, the
\* subscriptions and then connect_socket.
sub_client_calls(topics) == subscribe_calls(topics) \o <<ConnectCall>>

\* ZMQClient.create_sub_client(endpoint, socket_name, topics); ok is the
\* outcome of socket.connect.
ZmqCreateSubClient(name, topics, ok) ==
    /\ zmqCall.pc = "idle"
    /\ Len(zmq.socks) < MaxSockets
    /\ zmq' = create_pattern(zmq, "sub_client", name, ok)
    /\ zmqCall' =
         IF zmq.context = "terminated"
         THEN [ZReturned("create_sub_client", name, "False")
                  EXCEPT !.topics = topics]
         ELSE [ZReturned("create_sub_client", name, IF ok THEN "True" ELSE "False")
                  EXCEPT !.topics = topics, !.calls = sub_client_calls(topics)]
    /\ UNCHANGED <<ros, rosCall, fc, worker>>

\* create_sub_client between the other registry operations and stop().
ZmqSubClientNext ==
    \/ \E n \in Names, topics \in TopicLists, ok \in BOOLEAN :
          ZmqCreateSubClient(n, topics, ok)
    \/ \E n \in Names : ZmqCloseSocket(n)
    \/ \E n \in Names : ZmqStartLoop("subscriber", n)
    \/ ZmqStart
    \/ ZmqStopBegin
    \/ ZmqStopJoin
    \/ ZmqStopFinish
    \/ \E i \in 1..MaxThreads : ZmqLoopCheck(i)

\* ---- a second application thread ----------------------------------------
\* ZMQClient holds no lock: close_socket called on another thread runs its
\* three statements interleaved with the methods of the first caller.

WorkerReturned(op, name, ret) ==
    [WorkerIdle EXCEPT !.op = op, !.name = name, !.ret = ret]

\* close_socket on the second thread: 'if socket_name in self.sockets'
WorkerCloseTest(name) ==
    /\ worker.pc = "idle"
    /\ worker' = IF zmq.sockets[name] # NoSock
                 THEN [WorkerIdle EXCEPT !.pc = "close", !.op = "close_socket",
                                         !.name = name]
                 ELSE WorkerReturned("close_socket", name, "False")
    /\ UNCHANGED <<zmq, zmqCall, ros, rosCall, fc>>

\* close_socket on the second thread: 'self.sockets[socket_name].close()';
\* the lookup raises KeyError when the name has been removed meanwhile, and
\* the except clause returns False.
WorkerCloseClose ==
    /\ worker.pc = "close"
    /\ IF zmq.sockets[worker.name] # NoSock
       THEN /\ zmq' = [zmq EXCEPT !.socks[zmq.sockets[worker.name]] = ClosedSocket]
            /\ worker' = [worker EXCEPT !.pc = "del"]
       ELSE /\ UNCHANGED zmq
            /\ worker' = WorkerReturned("close_socket", worker.name, "False")
    /\ UNCHANGED <<zmqCall, ros, rosCall, fc>>

\* close_socket on the second thread: 'del self.sockets[socket_name]', which
\* removes whatever is registered under the name now, and 'return True'.
WorkerCloseDel ==
    /\ worker.pc = "del"
    /\ IF zmq.sockets[worker.name] # NoSock
       THEN /\ zmq' = [zmq EXCEPT !.sockets[worker.name] = NoSock]
            /\ worker' = WorkerReturned("close_socket", worker.name, "True")
       ELSE /\ UNCHANGED zmq
            /\ worker' = WorkerReturned("close_socket", worker.name, "False")
    /\ UNCHANGED <<zmqCall, ros, rosCall, fc>>

\* The registry operations and stop() of one thread, close_socket of another.
ZmqRegistryNext ==
    \/ \E n \in Names : ZmqCreate("pub_server", n, TRUE)
    \/ \E n \in Names : ZmqCloseSocket(n)
    \/ ZmqStopBegin
    \/ ZmqStopFinish
    \/ \E n \in Names : WorkerCloseTest(n)
    \/ WorkerCloseClose
    \/ WorkerCloseDel

\* Loops started on the same and on different names, before and after
\* start() and stop().
ZmqLoopsNext ==
    \/ \E l \in {"subscriber", "server"}, n \in Names :
          ZmqStartLoopWithin(MaxLoops, l, n)
    \/ ZmqStart
    \/ ZmqStopBegin
    \/ ZmqStopJoin
    \/ ZmqStopFinish
    \/ \E i \in 1..MaxLoops : ZmqLoopCheck(i)

\* request_reply on the second thread: send_message, then getsockopt and
\* setsockopt of RCVTIMEO.
WorkerRequestReply(name, timeout) ==
    /\ worker.pc = "idle"
    /\ IF zmq.sockets[name] = NoSock \/ ~CanSend(SocketOf(zmq, name))
       THEN /\ worker' = WorkerReturned("request_reply", name, "None")
            /\ UNCHANGED zmq
       ELSE LET id   == zmq.sockets[name]
                sock == zmq.socks[id]
            IN  /\ zmq' = [zmq EXCEPT !.socks[id] =
                              [AfterSend(sock) EXCEPT !.RCVTIMEO = timeout_ms(timeout)]]
                /\ worker' = [WorkerIdle EXCEPT
                                 !.pc = "rr_recv", !.op = "request_reply",
                                 !.name = name,
                                 !.original_timeout = sock.RCVTIMEO]
    /\ UNCHANGED <<zmqCall, ros, rosCall, fc>>

\* request_reply on the second thread: receive_message under the timeout
\* the socket has now.
WorkerRequestReplyRecv ==
    /\ worker.pc = "rr_recv"
    /\ LET id   == zmq.sockets[worker.name]
           sock == zmq.socks[id]
       IN  \E outcome \in (IF CanRecv(sock) THEN {"reply", "timeout", "error"}
                                           ELSE {"error"}) :
             /\ zmq' = [zmq EXCEPT !.socks[id] =
                          IF outcome = "reply" THEN AfterRecv(sock) ELSE sock]
             /\ worker' = [worker EXCEPT !.pc = "rr_finally", !.outcome = outcome]
    /\ UNCHANGED <<zmqCall, ros, rosCall, fc>>

\* request_reply on the second thread: the finally clause, then return.
WorkerRequestReplyFinally ==
    /\ worker.pc = "rr_finally"
    /\ zmq' = [zmq EXCEPT !.socks[zmq.sockets[worker.name]] =
                 restore_timeout(@, worker.original_timeout, worker.outcome)]
    /\ worker' = [WorkerReturned("request_reply", worker.name,
                                 IF worker.outcome = "reply" THEN "reply" ELSE "None")
                     EXCEPT !.original_timeout = worker.original_timeout,
                            !.outcome = worker.outcome]
    /\ UNCHANGED <<zmqCall, ros, rosCall, fc>>

\* request_reply of two threads on the sockets of one client.
ZmqConcurrentNext ==
    \/ \E p \in {"req_client", "pub_server"}, n \in Names : ZmqCreate(p, n, TRUE)
    \/ \E n \in Names, t \in Timeouts : ZmqRequestReply(n, t)
    \/ ZmqRequestReplyRecv
    \/ \E n \in Names, t \in Timeouts : WorkerRequestReply(n, t)
    \/ WorkerRequestReplyRecv
    \/ WorkerRequestReplyFinally

ZmqLoopStep ==
    \E i \in 1..MaxThreads :
       ZmqLoopCheck(i) \/ ZmqSubscriberBody(i) \/ ZmqServerBody(i)

\* Both objects after construction.  A specification that drives one client
\* leaves the other one as constructed with the default parameters.
RosInit ==
    /\ \E a \in BOOLEAN, c \in BOOLEAN : ros = RosObject(a, c)
    /\ rosCall = RosIdle
    /\ zmq = ZmqObject
    /\ zmqCall = ZmqIdle
    /\ fc = Controller(1)
    /\ worker = WorkerIdle

\* A FrequencyController next to two clients as constructed.
FcInit ==
    /\ ros = RosObject(TRUE, TRUE)
    /\ rosCall = RosIdle
    /\ zmq = ZmqObject
    /\ zmqCall = ZmqIdle
    /\ fc = Controller(1)
    /\ worker = WorkerIdle

ZmqInit ==
    /\ ros = RosObject(TRUE, TRUE)
    /\ rosCall = RosIdle
    /\ zmq = ZmqObject
    /\ zmqCall = ZmqIdle
    /\ fc = Controller(1)
    /\ worker = WorkerIdle

\* The ROSBridgeClient with auto_reconnect off and the probe disabled.
RosPublishInit ==
    /\ ros = RosObject(FALSE, FALSE)
    /\ rosCall = RosIdle
    /\ zmq = ZmqObject
    /\ zmqCall = ZmqIdle
    /\ fc = Controller(1)
    /\ worker = WorkerIdle

\* The ZMQClient under each message_format.
ZmqFormatInit ==
    /\ ros = RosObject(TRUE, TRUE)
    /\ rosCall = RosIdle
    /\ \E fmt \in Formats : zmq = [ZmqObject EXCEPT !.message_format = fmt]
    /\ zmqCall = ZmqIdle
    /\ fc = Controller(1)
    /\ worker = WorkerIdle

\* A ZMQClient used as a subscriber.
ZmqSubNext ==
    \/ \E n \in Names, ok \in BOOLEAN : ZmqCreate("sub_client", n, ok)
    \/ \E n \in Names : ZmqStartLoop("subscriber", n)
    \/ ZmqStart
    \/ ZmqStopBegin
    \/ ZmqStopJoin
    \/ ZmqStopFinish
    \/ \E i \in 1..MaxThreads :
          \/ ZmqLoopCheck(i)
          \/ ZmqSubscriberIdle(i)
          \/ \E frames \in Messages, raised \in BOOLEAN :
                ZmqSubscriberTick(i, frames, raised)

\* A subscriber with the default format whose callback may raise, and
\* whose continue_on_error is set by its owner.
ZmqErrorNext ==
    \/ \E n \in Names, ok \in BOOLEAN : ZmqCreate("sub_client", n, ok)
    \/ \E n \in Names : ZmqStartLoop("subscriber", n)
    \/ ZmqStart
    \/ ZmqStopBegin
    \/ ZmqStopJoin
    \/ ZmqStopFinish
    \/ \E value \in BOOLEAN : ZmqSetContinueOnError(value)
    \/ \E i \in 1..MaxThreads :
          \/ ZmqLoopCheck(i)
          \/ ZmqSubscriberIdle(i)
          \/ \E frames \in OneFrameMessages, raised \in BOOLEAN :
                ZmqSubscriberTick(i, frames, raised)

\* The send and receive methods on registered and unregistered names.
ZmqMessagingNext ==
    \/ \E p \in {"req_client", "pub_server"}, n \in Names : ZmqCreate(p, n, TRUE)
    \/ \E n \in Names : ZmqCloseSocket(n)
    \/ \E t \in {"req", "sub", "rep"}, n \in Names, a \in BOOLEAN, ok \in BOOLEAN :
          ZmqConnectToRemoteHost(t, n, a, ok)
    \/ \E n \in Names, data \in SendPayloads : ZmqSendMessage(n, data)
    \/ \E n \in Names, parts \in SendParts : ZmqSendMultipart(n, parts)
    \/ \E op \in {"receive_message", "receive_multipart_message"}, n \in Names :
          ZmqReceive(op, n)
    \/ \E n \in Names : ZmqRequestReply(n, 1)
    \/ ZmqRequestReplyRecv
    \/ \E i \in 1..MaxThreads : ZmqLoopCheck(i)

\* The codec and the message builder, called directly.
ZmqCodecNext ==
    \/ \E data \in Payloads : ZmqSerialize(data)
    \/ \E encoded \in Encodings : ZmqDeserialize(encoded)
    \/ ZmqDeserializeSerialized
    \/ \E o \in ByteOrders, t \in RosTopicNames, c \in RosContents \cup {<< >>} :
          ZmqCreateRosMessage(o, t, c)

ZmqNext ==
    \/ \E p \in Patterns, n \in Names, ok \in BOOLEAN : ZmqCreate(p, n, ok)
    \/ \E n \in Names : ZmqCloseSocket(n)
    \/ \E l \in {"subscriber", "server"}, n \in Names : ZmqStartLoop(l, n)
    \/ ZmqStart
    \/ ZmqStopBegin
    \/ ZmqStopJoin
    \/ ZmqStopFinish
    \/ \E n \in Names, t \in Timeouts : ZmqRequestReply(n, t)
    \/ ZmqRequestReplyRecv
    \/ ZmqLoopStep

\* The calls of the application thread, with the loop threads reaching
\* their test of the running flag only.
ZmqLifecycleNext ==
    \/ \E p \in Patterns, n \in Names, ok \in BOOLEAN : ZmqCreate(p, n, ok)
    \/ \E n \in Names : ZmqCloseSocket(n)
    \/ \E l \in {"subscriber", "server"}, n \in Names : ZmqStartLoop(l, n)
    \/ ZmqStart
    \/ ZmqStopBegin
    \/ ZmqStopJoin
    \/ ZmqStopFinish
    \/ \E n \in Names, t \in Timeouts : ZmqRequestReply(n, t)
    \/ ZmqRequestReplyRecv
    \/ \E i \in 1..MaxThreads : ZmqLoopCheck(i)

\* The ROSBridgeClient alone, and the ZMQClient alone: the two objects share
\* no state.
RosSpec == RosInit /\ [][RosNext]_vars

RosScanSpec == RosPublishInit /\ [][RosScanNext]_vars

RosConfigSpec == RosPublishInit /\ [][RosConfigNext]_vars

RosSubscriptionSpec == RosPublishInit /\ [][RosSubscriptionNext]_vars

FcSpec == FcInit /\ [][FcNext]_vars

FcSubscriptionSpec == FcInit /\ [][FcSubscriptionNext]_vars

ZmqSpec == ZmqInit /\ [][ZmqNext]_vars

ZmqLifecycleSpec == ZmqInit /\ [][ZmqLifecycleNext]_vars

ZmqSubSpec == ZmqFormatInit /\ [][ZmqSubNext]_vars

ZmqErrorSpec == ZmqInit /\ [][ZmqErrorNext]_vars

ZmqMessagingSpec == ZmqInit /\ [][ZmqMessagingNext]_vars

ZmqSubClientSpec == ZmqInit /\ [][ZmqSubClientNext]_vars

ZmqRegistrySpec == ZmqInit /\ [][ZmqRegistryNext]_vars

ZmqLoopsSpec == ZmqInit /\ [][ZmqLoopsNext]_vars

ZmqConcurrentSpec == ZmqInit /\ [][ZmqConcurrentNext]_vars

ZmqCodecSpec == ZmqFormatInit /\ [][ZmqCodecNext]_vars

RosLoopSpec == RosPublishInit /\ [][RosLoopNext]_vars

RosPublishSpec == RosPublishInit /\ [][RosPublishNext]_vars

\* The publish loops are threads: each keeps being scheduled.
RosFairSpec ==
    RosInit /\ [][RosNext]_vars
    /\ \A i \in 1..MaxPublishThreads :
          /\ WF_vars(PublishLoopCheck(i))
          /\ WF_vars(PublishLoopBody(i))
          /\ WF_vars(PublishLoopPublish(i))

ZmqTypeOK ==
    /\ zmq.context \in {"open", "terminated"}
    /\ Len(zmq.socks) <= MaxSockets
    /\ \A n \in Names : zmq.sockets[n] \in 0..Len(zmq.socks)

RosTypeOK ==
    /\ ros.client \in {"None", "unconnected", "connected"}
    /\ ros.reconnect_count \in 0..MaxReconnectAttempts
    /\ rosCall.depth \in 0..(MaxReconnectAttempts + 1)
\* ========================================================================
\* Claims about ROSBridgeClient
\* ========================================================================

\* A start() call has returned.
StartReturned == rosCall.pc = "idle" /\ rosCall.op = "start"

\* C1: start() with auto_reconnect and max_reconnect_attempts = N, when
\* every connection attempt fails (and every probe passes): exactly N retries
\* follow the first attempt, a reconnect_interval sleep precedes each retry,
\* and start() returns False.
C1_ExactlyNRetries ==
    ( /\ StartReturned
      /\ rosCall.ret = "False"
      /\ ros.auto_reconnect
      /\ ~rosCall.probe_failed )
    => /\ rosCall.retries = ros.max_reconnect_attempts
       /\ rosCall.sleeps = rosCall.retries
       /\ rosCall.connects = rosCall.retries + 1

\* C2 (ROSBridgeClient.start part): a failed reachability probe never ends
\* the start sequence by itself; the step after the probe is always the
\* protocol-level connect().
C2_RosProbeNeverAborts ==
    [][ (rosCall.pc = "probe" /\ rosCall' # rosCall)
          => rosCall'.pc = "connect" ]_vars

\* C6 (ROSBridgeClient part): when stop() has returned, every auto-publish
\* loop thread the client started has exited (stop() has no join to wait
\* with).
C6_RosStopAccountsForLoops ==
    (rosCall.pc = "idle" /\ rosCall.op = "stop")
    => \A i \in DOMAIN ros.publish_threads :
          ros.publish_threads[i].pc = "exited"

\* C7 (ROSBridgeClient part): stop() and disconnect() always run to the end
\* of the teardown: whatever unsubscribe() or unadvertise() raised, the
\* connection is terminated and client is None when they return.
C7_RosTeardownCompletes ==
    (rosCall.pc = "idle" /\ rosCall.op \in {"stop", "disconnect"})
    => ros.client = "None"

\* C8 (publish loop part): every publish loop thread that is alive when
\* stop() has set running = False eventually exits.
C8_RosStoppedLoopsExit ==
    \A i \in 1..MaxPublishThreads :
       ( rosCall.op = "stop"
         /\ PublishThreadPc(i) \in {"check", "body", "publish"} )
       ~> ( PublishThreadPc(i) = "exited" )

\* C11: a publish loop without generator on a registered topic: when
\* update_publish_content (or _by_name) has returned True for that topic
\* between two ticks, the message the next tick builds is the one made of
\* the new content.
C11_TickUsesNewContent ==
    [][ \A i \in 1..MaxPublishThreads :
          ( /\ PublishLoopBody(i)
            /\ is_connected(ros)
            /\ ~ros.publish_threads[i].generator
            /\ rosCall.pc = "idle"
            /\ rosCall.op = "update_publish_content"
            /\ rosCall.ret = "True"
            /\ rosCall.topic = ros.publish_threads[i].topic
            /\ i \in rosCall.between_ticks )
          => ros'.publish_threads[i].current_message
                = StringMessage(rosCall.content) ]_vars

\* The step of thread i is the end of a tick that sent nothing: the
\* generator raised, or publish_message returned False.
TickFailed(i) ==
    \/ /\ PublishLoopBody(i)
       /\ is_connected(ros)
       /\ ros.publish_threads[i].generator
       /\ ros'.publish_threads[i].pc # "publish"
    \/ /\ PublishLoopPublish(i)
       /\ ros'.publish_threads[i].last_tick = "skipped"

\* C12: a tick whose generator raises or whose publish_message fails leaves
\* the publish loop at its next test of running, and a publish loop exits
\* only by finding running False at that test.
C12_FailedTickKeepsLoop ==
    [][ \A i \in 1..MaxPublishThreads :
          /\ TickFailed(i) => ros'.publish_threads[i].pc = "check"
          /\ ( PublishThreadPc(i) \in {"check", "body", "publish"}
               /\ ros'.publish_threads[i].pc = "exited" )
             => ( PublishLoopCheck(i) /\ ~ros.running ) ]_vars

\* C12 witness: a loop is in a new tick after a tick that was skipped.
C12_Witness ==
    \E i \in DOMAIN ros.publish_threads :
       /\ ros.publish_threads[i].last_tick = "skipped"
       /\ ros.publish_threads[i].pc = "publish"
       /\ ros.running

\* ========================================================================
\* Claims about ZMQClient
\* ========================================================================

\* C3: after any sequence of create_* and close_socket calls, no socket that
\* was registered under a name stays open once it is no longer the
\* registered one: every open socket is the socket of some name.
C3_OnlyRegisteredSocketsOpen ==
    \A id \in DOMAIN zmq.socks :
       ~zmq.socks[id].closed => \E n \in Names : zmq.sockets[n] = id

\* C4: close_socket(name) on a registered name closes the socket, removes
\* the name and returns True, leaving the other names alone; on an absent
\* name (a second close included) it returns False and changes nothing.
C4_CloseSocketIdempotent ==
    [][ \A n \in Names :
          ZmqCloseSocket(n) =>
             IF zmq.sockets[n] # NoSock
             THEN /\ zmq'.socks[zmq.sockets[n]].closed
                  /\ zmq'.sockets[n] = NoSock
                  /\ \A m \in Names \ {n} : zmq'.sockets[m] = zmq.sockets[m]
                  /\ zmqCall'.ret = "True"
             ELSE /\ zmq' = zmq
                  /\ zmqCall'.ret = "False" ]_vars

\* C4 witness: close_socket has returned False for a name that is absent
\* although sockets were created and closed before.
C4_Witness ==
    /\ zmqCall.op = "close_socket"
    /\ zmqCall.ret = "False"
    /\ zmq.context = "open"
    /\ \E id \in DOMAIN zmq.socks : zmq.socks[id].closed

\* C5: when stop() returns, every socket that was in the registry has been
\* closed and the registry is empty.
C5_StopClosesRegistry ==
    [][ ZmqStopFinish =>
          /\ \A n \in Names : zmq'.sockets[n] = NoSock
          /\ \A n \in Names :
                zmq.sockets[n] # NoSock => zmq'.socks[zmq.sockets[n]].closed ]_vars

\* C5 witness: stop() has returned on a client that had started a loop
\* thread and created at least two sockets; all of them are closed.
C5_Witness ==
    /\ zmqCall.op = "stop"
    /\ zmq.threads # << >>
    /\ Len(zmq.socks) >= 2
    /\ \A id \in DOMAIN zmq.socks : zmq.socks[id].closed

\* C9: in the server loop on a REP socket every received request is followed
\* by a sent reply before the next receive attempt: a tick that starts with
\* no reply owed ends with no reply owed.
C9_ReplyBeforeNextReceive ==
    [][ \A i \in 1..MaxThreads :
          ( /\ ZmqServerBody(i)
            /\ zmq.sockets[zmq.threads[i].socket_name] # NoSock
            /\ SocketOf(zmq, zmq.threads[i].socket_name).socket_type = "REP"
            /\ ~SocketOf(zmq, zmq.threads[i].socket_name).pending )
          => ~SocketOf(zmq', zmq.threads[i].socket_name).pending ]_vars

\* C10: request_reply leaves RCVTIMEO of the socket equal to its value
\* before the call on every return path.
C10_TimeoutRestored ==
    ( /\ zmqCall.pc = "idle"
      /\ zmqCall.op = "request_reply"
      /\ zmq.sockets[zmqCall.name] # NoSock )
    => SocketOf(zmq, zmqCall.name).RCVTIMEO = zmqCall.rcvtimeo_at_call

\* C10 witness: request_reply has returned None after its receive timed out.
C10_Witness ==
    /\ zmqCall.pc = "idle"
    /\ zmqCall.op = "request_reply"
    /\ zmqCall.outcome = "timeout"
    /\ zmqCall.ret = "None"

\* ------------------------------------------------------------------------
\* Claims about the subscriber loop and the codec of ZMQClient
\* ------------------------------------------------------------------------

\* A value the claims call empty: None, b'' or ''.
EmptyValue(v) == v \in {PyNone, PyBytes(<< >>), PyStr(<< >>)}

\* The i-th thread handled a message in the step it has just made, and this
\* is what its callback was given.
Delivered(i) ==
    IF i \in DOMAIN zmq.threads THEN zmq.threads[i].delivered ELSE NoCall

\* C13: for a received message of at least two frames the content given to
\* the callback is frame[1], except that a third frame that is present and
\* not empty replaces it.
C13_ContentResolution ==
    [][ \A i \in 1..MaxThreads, frames \in Messages :
          ( /\ ZmqSubscriberTick(i, frames, FALSE)
            /\ Len(frames) >= 2
            /\ Delivered(i)' # NoCall )
          => LET parts == data_parts(zmq.message_format, frames)
             IN  Delivered(i)' =
                   IF Len(frames) >= 3 /\ ~EmptyValue(parts[3])
                   THEN parts[3] ELSE parts[2] ]_vars

\* C14: under the formats json, string and bytes the callback of a subscriber
\* loop is never invoked with None, an empty byte string or an empty string.
C14_NoEmptyCallback ==
    zmq.message_format \in {"json", "string", "bytes"}
    => \A i \in DOMAIN zmq.threads : ~EmptyValue(zmq.threads[i].delivered)

\* C15: when the callback of a subscriber loop raises, the loop goes on to
\* its next test of running and receive if continue_on_error is true, and
\* exits if it is false; a loop that has exited makes no further step.
C15_CallbackErrorPolicy ==
    [][ \A i \in 1..MaxThreads :
          /\ \A frames \in OneFrameMessages :
               ( /\ ZmqSubscriberTick(i, frames, TRUE)
                 /\ callback_argument(data_parts(zmq.message_format, frames)) # NoCall )
               => /\ Delivered(i)' # NoCall
                  /\ ThreadPc(i)' = IF zmq.continue_on_error THEN "check"
                                                             ELSE "exited"
          /\ ThreadPc(i) = "exited" => zmq'.threads[i] = zmq.threads[i] ]_vars

\* C15 witness: a loop has left through 'break' after its callback raised on
\* a message, while the client is running with continue_on_error false.
C15_Witness ==
    \E i \in DOMAIN zmq.threads :
       /\ zmq.threads[i].pc = "exited"
       /\ zmq.threads[i].delivered # NoCall
       /\ zmq.running
       /\ ~zmq.continue_on_error

\* C16: a message built by create_ros_message(T, C) with C not empty and
\* received by a subscriber loop makes the loop invoke its callback with
\* exactly C (as text, or as the bytes of C), without a length prefix.
C16_RosMessageRoundTrip ==
    [][ \A i \in 1..MaxThreads, o \in ByteOrders,
           t \in RosTopicNames, c \in RosContents :
          ZmqSubscriberTick(i, create_ros_message(o, t, c), FALSE)
          => Delivered(i)' \in {PyStr(c), PyBytes(utf8_encode(c))} ]_vars

\* C17: a 3-frame message whose length frame differs from the length of its
\* payload frame is dropped: the callback is not invoked and the loop goes
\* on.
C17_WrongLengthDropped ==
    [][ \A i \in 1..MaxThreads, o \in ByteOrders,
           t \in RosTopicNames, c \in RosContents, raised \in BOOLEAN :
          ZmqSubscriberTick(i, wrong_length_message(o, t, c), raised)
          => /\ Delivered(i)' = NoCall
             /\ ThreadPc(i)' = "check" ]_vars

\* C18: create_ros_message(T, C) returns three frames: T in UTF-8, the
\* 4-byte little-endian length of the third frame, and the third frame,
\* which is the 4-byte little-endian length of C in UTF-8 followed by those
\* bytes.
C18_RosMessageFrames ==
    zmqCall.op = "create_ros_message"
    => LET content_bytes == utf8_encode(zmqCall.data.val)
       IN  /\ Len(zmqCall.frames) = 3
           /\ zmqCall.frames[1] = utf8_encode(zmqCall.topic_name)
           /\ zmqCall.frames[2] = pack_little(Len(content_bytes) + 4)
           /\ zmqCall.frames[3] = pack_little(Len(content_bytes)) \o content_bytes

\* C19: what _serialize_message returns for a payload is turned back into
\* that payload by _deserialize_message, for every payload under the formats
\* json and string and for every byte string under the format bytes.
C19_CodecRoundTrip ==
    ( /\ zmqCall.op = "round_trip"
      /\ \/ zmq.message_format \in {"json", "string"}
         \/ zmq.message_format = "bytes" /\ zmqCall.data.type = "bytes" )
    => zmqCall.decoded = zmqCall.data

\* C20: a message_format that is none of the known ones is handled as JSON
\* in both directions, and whenever the format in effect is JSON, bytes that
\* are text but not valid JSON are decoded to that text.
C20_JsonFallback ==
    zmq.message_format \notin {"string", "bytes"}
    => /\ zmqCall.op = "serialize"
          => zmqCall.encoded = serialize_message("json", zmqCall.data)
       /\ ( /\ zmqCall.op = "deserialize"
            /\ utf8_valid(zmqCall.encoded) )
          => zmqCall.decoded =
                IF json_loads(utf8_decode(zmqCall.encoded)) # Raised
                THEN json_loads(utf8_decode(zmqCall.encoded))
                ELSE PyStr(utf8_decode(zmqCall.encoded))

\* ------------------------------------------------------------------------
\* Claims about FrequencyController
\* ------------------------------------------------------------------------

\* C22: should_process returns True always when target_hz <= 0; when
\* target_hz > 0 it returns True exactly when now - last_time is at least
\* 1/target_hz, sets last_time to now when it returns True and changes
\* nothing of the controller when it returns False.
C22_ShouldProcess ==
    [][ FcShouldProcess
        => /\ fc.target_hz <= 0 => fc'.ret
           /\ fc.target_hz > 0
              => /\ fc'.ret <=> ((fc.now - fc.last_time) * fc.target_hz >= 4)
                 /\ fc'.ret => fc'.last_time = fc.now
           /\ ~fc'.ret => /\ fc'.last_time = fc.last_time
                          /\ fc'.interval = fc.interval
                          /\ fc'.target_hz = fc.target_hz ]_vars

\* C22 witness: a controller with target_hz > 0 that has fired before has
\* just refused a call.
C22_Witness ==
    /\ fc.op = "should_process"
    /\ ~fc.ret
    /\ fc.target_hz > 0
    /\ fc.fired_last # 0

\* C23: with target_hz > 0, a should_process call made less than 1/target_hz
\* after the last one that returned True returns False, and one made
\* 1/target_hz or more after it returns True; so two consecutive
\* invocations of the user callback of a subscription created with
\* target_hz are at least 1/target_hz apart.
C23_RateLimit ==
    [][ /\ ( FcShouldProcess /\ fc.fired_last # 0 )
           => ( fc'.ret <=> ((fc.now - fc.fired_last) * fc.target_hz >= 4) )
        /\ fc'.fired_prev # 0
           => (fc'.fired_last - fc'.fired_prev) * fc'.target_hz >= 4 ]_vars

\* C23 witness: the user callback of a subscription has been invoked twice,
\* and a message that arrived since the second invocation was skipped.
C23_Witness ==
    /\ fc.fired_prev # 0
    /\ fc.op = "should_process"
    /\ ~fc.ret
    /\ fc.now > fc.fired_last

\* C24: the first should_process after reset() returns True whenever the
\* controller last fired; set_frequency(hz) sets interval to 1/hz when
\* hz > 0 and to 0 otherwise, and the first should_process after it returns
\* True as well.
C24_ResetForcesFire ==
    [][ /\ ( FcShouldProcess /\ fc.op \in {"reset", "set_frequency"} ) => fc'.ret
        /\ \A target_hz \in Frequencies :
             FcSetFrequency(target_hz)
             => /\ fc'.target_hz = target_hz
                /\ IF target_hz > 0 THEN fc'.interval * target_hz = 4
                                    ELSE fc'.interval = 0 ]_vars

\* C24 witness: a should_process right after reset() has returned True at
\* the very clock value at which the controller had fired before.
C24_Witness ==
    /\ fc.op = "should_process"
    /\ fc.after = "reset"
    /\ fc.ret
    /\ fc.target_hz > 0
    /\ fc.fired_prev = fc.fired_last
    /\ fc.fired_prev # 0

\* ------------------------------------------------------------------------
\* Claims about the send and receive methods of ZMQClient
\* ------------------------------------------------------------------------

\* C21: a send whose payload (send_message) or one of whose parts
\* (send_multipart_message) could not be serialized returns False and hands
\* nothing to the socket.
C21_FailedEncodingNotSent ==
    /\ ( /\ zmqCall.op = "send_message"
         /\ serialize_fails(zmq.message_format, zmqCall.data) )
       => zmqCall.ret = "False" /\ zmqCall.frames = << >>
    /\ ( /\ zmqCall.op = "send_multipart_message"
         /\ \E j \in DOMAIN zmqCall.parts :
               /\ zmqCall.parts[j].type # "bytes"
               /\ serialize_fails(zmq.message_format, zmqCall.parts[j]) )
       => zmqCall.ret = "False" /\ zmqCall.frames = << >>

\* The value a method returns when it fails.
FailureValue(op) ==
    CASE op \in {"send_message", "send_multipart_message"} -> "False"
      [] op = "receive_multipart_message"                  -> "[]"
      [] OTHER                                             -> "None"

\* C25: send_message, send_multipart_message, receive_message,
\* receive_multipart_message and request_reply on a name that is not
\* registered return their failure value at once and leave the client as it
\* was; connect_to_remote_host with an unsupported socket_type returns False
\* and registers no socket.
C25_ConfigurationErrors ==
    [][ \A n \in Names :
          /\ ( /\ zmq.sockets[n] = NoSock
               /\ \/ \E data \in SendPayloads : ZmqSendMessage(n, data)
                  \/ \E parts \in SendParts : ZmqSendMultipart(n, parts)
                  \/ ZmqReceive("receive_message", n)
                  \/ ZmqReceive("receive_multipart_message", n)
                  \/ ZmqRequestReply(n, 1) )
             => /\ zmqCall'.pc = "idle"
                /\ zmqCall'.ret = FailureValue(zmqCall'.op)
                /\ zmq' = zmq
          /\ ( \E a \in BOOLEAN, ok \in BOOLEAN : ZmqConnectToRemoteHost("rep", n, a, ok) )
             => /\ zmqCall'.pc = "idle"
                /\ zmqCall'.ret = "False"
                /\ zmq'.sockets = zmq.sockets
                /\ zmq'.socks = zmq.socks ]_vars

\* C25 witness: while another name is registered, a request_reply on a name
\* that is not has returned None.
C25_Witness ==
    /\ zmqCall.pc = "idle"
    /\ zmqCall.op = "request_reply"
    /\ zmqCall.ret = "None"
    /\ zmq.sockets[zmqCall.name] = NoSock
    /\ RegisteredNames(zmq) # {}

\* C26: whenever start() returns False, running is False, whatever start()
\* and stop() calls came before it.
C26_FalseLeavesNotRunning ==
    (StartReturned /\ rosCall.ret = "False") => ~ros.running

\* C28: the reconnection retry of start() is iterative: at most one
\* activation of start() is on the call stack, however many attempts were made.
C28_RetryIsIterative == rosCall.depth <= 1

\* C27: create_sub_client on an open context subscribes the new socket to
\* exactly the given topic filters when the list is non-empty and to the
\* zero-length prefix when topics is empty or None, and every subscription
\* is set before the one connect call, which comes last.
C27_SubscriptionsBeforeConnect ==
    (zmqCall.op = "create_sub_client" /\ zmqCall.calls # << >>) =>
       LET calls == zmqCall.calls
           last == Len(calls)
           topics == zmqCall.topics
       IN  /\ calls[last].call = "connect"
           /\ \A i \in 1..(last - 1) :
                 calls[i].call = "setsockopt" /\ calls[i].option = "SUBSCRIBE"
           /\ { calls[i].value : i \in 1..(last - 1) } =
                 IF topics.given /\ topics.list # << >>
                 THEN { utf8_encode(topics.list[i]) : i \in 1..Len(topics.list) }
                 ELSE { << >> }

\* C27 witness: create_sub_client with two topics has returned True and the
\* socket is registered.
C27_Witness ==
    /\ zmqCall.op = "create_sub_client"
    /\ zmqCall.ret = "True"
    /\ zmqCall.topics.given
    /\ Len(zmqCall.topics.list) = 2
    /\ Len(zmqCall.calls) = 3
    /\ zmq.sockets[zmqCall.name] # NoSock

\* C29: a loop started with start_subscriber_loop or start_server_loop does
\* not exit before stop() is called, whether it was started before or after
\* start() set the running flag.
C29_LoopRunsUntilStop ==
    \A i \in 1..Len(zmq.threads) :
       zmq.threads[i].pc = "exited"
          => (zmqCall.pc = "stop_join" \/ zmq.context = "terminated")

\* C30: registry mutations running on different threads are mutually
\* exclusive: no name is registered with a socket that is already closed, a
\* close_socket that has passed its membership check still finds the name
\* registered, and once stop() has returned and no other operation is in
\* progress no socket is registered or open.
C30_RegistryMutualExclusion ==
    /\ \A n \in RegisteredNames(zmq) : ~SocketOf(zmq, n).closed
    /\ worker.pc \in {"close", "del"} => zmq.sockets[worker.name] # NoSock
    /\ ( zmqCall.pc = "idle" /\ zmqCall.op = "stop" /\ worker.pc = "idle" )
       => /\ RegisteredNames(zmq) = {}
          /\ \A i \in 1..Len(zmq.socks) : zmq.socks[i].closed

\* C31: at every moment at most one live background loop exists per ZMQ
\* socket name and at most one live auto-publish loop per ROSBridge topic.
C31_OneLoopPerName ==
    /\ \A i, j \in 1..Len(zmq.threads) :
          ( /\ i # j
            /\ zmq.threads[i].pc # "exited"
            /\ zmq.threads[j].pc # "exited" )
          => zmq.threads[i].socket_name # zmq.threads[j].socket_name
    /\ \A i, j \in 1..Len(ros.publish_threads) :
          ( /\ i # j
            /\ ros.publish_threads[i].pc # "exited"
            /\ ros.publish_threads[j].pc # "exited" )
          => ros.publish_threads[i].topic # ros.publish_threads[j].topic

\* C32: once request_reply calls running concurrently on one socket name
\* with different timeouts have all returned, the receive timeout of the
\* socket is the value it had before the first of them started.
C32_ConcurrentTimeoutRestored ==
    ( /\ zmqCall.pc = "idle" /\ zmqCall.op = "request_reply"
      /\ worker.pc = "idle" /\ worker.op = "request_reply"
      /\ worker.name = zmqCall.name
      /\ zmq.sockets[zmqCall.name] # NoSock )
    => SocketOf(zmq, zmqCall.name).RCVTIMEO = configured_rcvtimeo

\* C33: a running publish loop without generator does not terminate while
\* running is True, whatever add_publish_topic, remove_publish_topic and
\* update_publish_content calls another thread makes during its ticks.
C33_WritersKeepLoopAlive ==
    [][ \A i \in DOMAIN ros.publish_threads :
          ( /\ ros.publish_threads[i].pc # "exited"
            /\ ros'.publish_threads[i].pc = "exited" )
          => ~ros.running ]_vars

\* C34: a create_* helper that returns False because the bind or connect
\* failed leaves the registry as it was before the call: no socket is
\* registered under the requested name by the call.
C34_FailedCreateLeavesRegistry ==
    [][ \A p \in Patterns, n \in Names :
          ( ZmqCreate(p, n, FALSE) /\ zmq.context = "open" )
             => /\ zmq'.sockets = zmq.sockets
                /\ zmq'.socks = zmq.socks ]_vars

\* C35: connected_endpoints is the set of endpoints to which a registered,
\* open socket is connected; in particular it is empty whenever no socket
\* is registered, as after close_socket of the last socket and after stop().
C35_EndpointsOfRegisteredSockets ==
    ( zmqCall.pc = "idle" /\ RegisteredNames(zmq) = {} )
       => zmq.connected_endpoints = {}

\* C36: update_config and batch_update_config change only the named
\* configuration values: the publish and subscribe topics registered on the
\* ROSBridgeClient are the same after the call as before it.
C36_UpdateConfigKeepsTopics ==
    [][ \A key \in ConfigKeys, value \in BOOLEAN :
          RosUpdateConfig(key, value)
             => /\ ros'.publish_topics = ros.publish_topics
                /\ ros'.subscribe_topics = ros.subscribe_topics ]_vars

\* C37: with topics registered by add_publish_topic and add_subscribe_topic,
\* a start() whose connection succeeded returns True and does not raise,
\* having subscribed every registered subscribe topic and created a
\* publisher and an auto-publish loop for every registered publish topic.
C37_StartSetsUpRegisteredTopics ==
    [][ RosStartSetup =>
          /\ rosCall'.ret = "True"
          /\ ros.subscribe_topics \subseteq ros'.subscribers
          /\ \A j \in DOMAIN ros.publish_topics :
                /\ ros.publish_topics[j].name \in ros'.publishers
                /\ \E i \in DOMAIN ros'.publish_threads :
                      ros'.publish_threads[i].topic = ros.publish_topics[j].name ]_vars

\* C38: stop() unadvertises every publisher that was created with
\* create_publisher and not yet removed (before it terminates the
\* connection).
C38_StopUnadvertisesPublishers ==
    ( rosCall.pc = "idle" /\ rosCall.op = "stop" )
       => rosCall.unadvertised = rosCall.publishers_at_call

\* C39: every top-level start() has the full retry budget: the attempt
\* counter is back at 0 whenever a start() call has returned.
C39_CounterResetOnReturn ==
    StartReturned => ros.reconnect_count = 0

\* C40: on a connected client every subscription that is active on the
\* bridge is the one recorded in subscribers under its topic name, and a
\* frequency controller is stored for a topic exactly when the topic's
\* recorded subscription is rate-limited.
C40_SubscriptionsRecorded ==
    is_connected(ros) =>
       /\ ros.orphans = {}
       /\ ros.freq_controllers = ros.rate_limited

====
